---- MODULE Spec2Model ----
(***************************************************************************)
(* Multi-drone mission planner: the fleet coordinator (DroneContext), the  *)
(* dispatch handler (DispatchDashboard) and the per-drone flight-mode      *)
(* state machine and physics integrator of the tick loop (MissionControl). *)
(*                                                                         *)
(* Units.  Time is counted in tenths of a second, so the tick's clamp      *)
(* Math.min(dt, 0.1) is DT_CLAMP = 1 and the delivery wait of 3 s is 30.   *)
(* Positions are metres north (lat) and east (lng) of the central hub,     *)
(* altitudes are metres, all integers.  Products with dt are divided by    *)
(* 10 and rounded away from zero (RoundAway), so a non-zero rate always    *)
(* makes progress, as it does in floating point.  Headings are compass     *)
(* quadrants (multiples of HEADING_Q degrees); getBearing returns the      *)
(* quadrant nearest to the true bearing and a turn of less than one        *)
(* quadrant is rounded up to one.  The battery is followed through the     *)
(* rate each tick drains it at, in thousandths of a percent per tenth of a *)
(* second; the level itself (battery_rem, in thousandths of a percent) is  *)
(* followed in the behaviours that start from a given level (SpecBattery). *)
(* The speed indicator (km/h) and the telemetry the coordinator holds for  *)
(* a vehicle are followed in the behaviours whose records carry them       *)
(* (SpecTelemetry).                                                        *)
(***************************************************************************)
EXTENDS Integers, Sequences, FiniteSets, TLC

\* ------------------------------------------------------------------ bounds
MaxRequests == 1       \* medicine requests that exist in the backing store
MaxStep == 2           \* largest gap between two tick timestamps, in tenths of a second
MaxGap == 2            \* elapsed time since lastTick is tracked up to this value
MaxOps == 1            \* operator / API commands issued in one behaviour
DestNorth == 12        \* the request location lies this many metres north of the hub
CallCap == 2           \* completion callbacks are counted up to this value
MaxAlt == 120          \* metres of altitude up to which the model follows a drone
MaxRange == 90         \* metres north or east of the hub up to which it follows a drone
LowBattery == 12       \* a nearly empty battery, in thousandths of a percent
MaxDeficit == 10       \* thousandths of a percent below empty down to which the level is followed

\* ------------------------------------------------------- program constants
NumDrones == 5
SIM_SPEED_MULT == 4
DEFAULT_ALT == 100
WP_RADIUS == 15
RTL_ALT == 50
HOME_RADIUS == 5
DT_CLAMP == 1
DELIVERY_WAIT == 30
CRUISE_SPEED == 15
TURN_RATE == 30
VSPEED_MIN == -3
VSPEED_MAX == 5
VSPEED_GAIN == 2
ALT_TOLERANCE == 2
DISARM_MAX_ALT == 2
MOVE_SPEED == 20         \* 0.00018 degrees of latitude, in metres
ALT_SPEED == 20
YAW_SPEED == 75
DRAIN_STABILIZE == 1     \* 0.01 % of battery per second, in 0.001 % per tenth of a second
DRAIN_FLIGHT == 5        \* 0.05 % of battery per second
FULL_BATTERY == 100000   \* battery_rem: 100, in thousandths of a percent
MANUAL_SPEED_KPH == 45   \* the fixed speed indicator of manual flight, km/h
HEADING_Q == 360 \div 4   \* headings are multiples of a quarter turn

Drones == 1..NumDrones
Requests == 1..MaxRequests
None == 0              \* null (no drone, no task)

DroneStatus == {"idle", "dispatched", "running", "completed", "returning"}
FlightMode == {"STABILIZE", "LOITER", "AUTO", "RTL", "GUIDED", "LAND"}
Axes == {"up", "down", "turnLeft", "turnRight", "forward", "backward", "left", "right"}
PreflightSteps == <<"accel", "gyro", "mag", "rc", "battery">>

VARIABLES
    drones,          \* DroneContext state: id -> [status, assignedTaskId, assignedRoute]
    physics,         \* dronePhysicsRef: id -> DronePhysics
    selectedDroneId, \* DroneContext selectedDroneId (None = null)
    activeControls,  \* the manual axes currently held
    gpsFix,          \* "NO_FIX" or "3D_FIX"
    preflightChecks, \* the preflight steps that have passed
    timers,          \* pending setTimeout callbacks
    requests,        \* backing store: request id -> status
    completedCalls,  \* request id -> number of updateRequestStatus(id, 'completed') calls
    lastEvent,       \* the last operation and what it reported (alert / addLog)
    opsLeft,         \* commands the operator may still issue
    ghost            \* per drone, history of the current assignment

vars == <<drones, physics, selectedDroneId, activeControls, gpsFix, preflightChecks,
          timers, requests, completedCalls, lastEvent, opsLeft, ghost>>

\* ----------------------------------------------------------------- helpers
Abs(x) == IF x < 0 THEN -x ELSE x
Sign(x) == IF x > 0 THEN 1 ELSE IF x < 0 THEN -1 ELSE 0
Min2(a, b) == IF a < b THEN a ELSE b
Max2(a, b) == IF a > b THEN a ELSE b

\* n / d rounded away from zero (d > 0)
RoundAway(n, d) == Sign(n) * ((Abs(n) + d - 1) \div d)

\* squared great-circle distance on the local metre grid
getDist2(lat1, lon1, lat2, lon2) ==
    (lat2 - lat1) * (lat2 - lat1) + (lon2 - lon1) * (lon2 - lon1)

\* getDist(...) < r
DistLess(lat1, lon1, lat2, lon2, r) == getDist2(lat1, lon1, lat2, lon2) < r * r

\* initial bearing, to the nearest quadrant; atan2(0, 0) = 0 gives bearing 0
getBearing(lat1, lon1, lat2, lon2) ==
    LET x == lat2 - lat1
        y == lon2 - lon1
    IN  IF Abs(x) >= Abs(y)
        THEN (IF x >= 0 THEN 0 ELSE 180)
        ELSE (IF y > 0 THEN 90 ELSE 270)

\* north and east components of a unit step along a quadrant heading
CosQ(h) == IF h = 0 THEN 1 ELSE IF h = 180 THEN -1 ELSE 0
SinQ(h) == IF h = 90 THEN 1 ELSE IF h = 270 THEN -1 ELSE 0

\* a turn of deg degrees on the quadrant grid
TurnQ(deg) == ((deg + HEADING_Q - 1) \div HEADING_Q) * HEADING_Q

\* --------------------------------------------------------------- routes
MissionItem(seq, command, lat, lng, alt) ==
    [seq |-> seq, command |-> command, lat |-> lat, lng |-> lng, alt |-> alt]

\* DispatchDashboard.generateRouteForTask: the canonical 5-step route
generateRouteForTask(start, destination) ==
    << MissionItem(1, "NAV_TAKEOFF", start.lat, start.lng, DEFAULT_ALT),
       MissionItem(2, "NAV_WAYPOINT", (start.lat + destination.lat) \div 2,
                   (start.lng + destination.lng) \div 2, DEFAULT_ALT),
       MissionItem(3, "NAV_WAYPOINT", destination.lat, destination.lng, DEFAULT_ALT),
       MissionItem(4, "NAV_LOITER", destination.lat, destination.lng, DEFAULT_ALT),
       MissionItem(5, "NAV_LAND", destination.lat, destination.lng, 0) >>

CENTRAL_HOSPITAL_LOCATION == [lat |-> 0, lng |-> 0]
hubLocation == CENTRAL_HOSPITAL_LOCATION

\* the location of a request: every request lies DestNorth metres north of the hub
RequestLocation(id) == [lat |-> DestNorth, lng |-> 0]

\* routes handed to the coordinator API directly: a direct landing at the
\* request location, and a two-step low route
ApiRoutes ==
    { << MissionItem(1, "NAV_LAND", DestNorth, 0, 0) >>,
      << MissionItem(1, "NAV_TAKEOFF", 0, 0, 4),
         MissionItem(2, "NAV_LAND", DestNorth, 0, 0) >> }

\* -------------------------------------------------------------- initial state
\* DroneContext.createInitialDrones
createInitialDrones ==
    [d \in Drones |-> [status |-> "idle", assignedTaskId |-> None, assignedRoute |-> <<>>,
                       hasRoute |-> FALSE]]

\* MissionControl, INITIALIZE DRONE PHYSICS
InitialPhysics ==
    [lat |-> CENTRAL_HOSPITAL_LOCATION.lat, lng |-> CENTRAL_HOSPITAL_LOCATION.lng,
     alt |-> 0, heading |-> 0, vSpeed |-> 0, sinceTick |-> 0, drainRate |-> 0,
     armed |-> FALSE, flightMode |-> "STABILIZE", activeWpIndex |-> -1,
     homeLocation |-> CENTRAL_HOSPITAL_LOCATION,
     deliveryWaitTime |-> 0, isReturningHome |-> FALSE]

InitialGhost == [calls |-> 0, wasReturning |-> FALSE, armReq |-> FALSE, overrodeRtl |-> FALSE]

Init ==
    /\ drones = createInitialDrones
    /\ physics = [d \in Drones |-> InitialPhysics]
    /\ selectedDroneId = None
    /\ activeControls = {}
    /\ gpsFix = "NO_FIX"
    /\ preflightChecks = {}
    /\ timers = {}
    /\ requests = [r \in Requests |-> "pending"]
    /\ completedCalls = [r \in Requests |-> 0]
    /\ lastEvent = [op |-> "init", events |-> {}]
    /\ opsLeft = MaxOps
    /\ ghost = [d \in Drones |-> InitialGhost]

\* ------------------------------------------------------- fleet coordinator
\* a search that keeps the last idle drone it meets instead of returning the first
getLastIdleDrone(ds) ==
    IF \E d \in Drones : ds[d].status = "idle"
    THEN CHOOSE d \in Drones : ds[d].status = "idle" /\ \A e \in Drones : ds[e].status = "idle" => e <= d
    ELSE None

\* DroneContext.getAvailableDrone: the loop over drones.values(), in creation order
RECURSIVE FirstIdleFrom(_, _)
FirstIdleFrom(ds, i) ==
    IF i > NumDrones THEN None
    ELSE IF ds[i].status = "idle" THEN i
    ELSE FirstIdleFrom(ds, i + 1)

getAvailableDrone(ds) == FirstIdleFrom(ds, 1)

\* DroneContext.assignTaskToDrone
assignTaskToDrone(ds, droneId, taskId, route) ==
    [ds EXCEPT ![droneId] = [@ EXCEPT !.status = "dispatched",
                                      !.assignedTaskId = taskId,
                                      !.assignedRoute = route,
                                      !.hasRoute = TRUE]]

\* DroneContext.updateDroneStatus
updateDroneStatus(ds, droneId, status) ==
    [ds EXCEPT ![droneId] = [@ EXCEPT !.status = status]]

\* DroneContext.updateDroneRoute
updateDroneRoute(ds, droneId, route) ==
    [ds EXCEPT ![droneId] = [@ EXCEPT !.assignedRoute = route, !.hasRoute = TRUE]]

\* a release that forgets to clear the task reference
completeDroneTaskKeepsTask(ds, droneId) ==
    [ds EXCEPT ![droneId] = [@ EXCEPT !.status = "idle",
                                      !.assignedRoute = <<>>,
                                      !.hasRoute = FALSE]]

\* DroneContext.completeDroneTask
completeDroneTask(ds, droneId) ==
    [ds EXCEPT ![droneId] = [@ EXCEPT !.status = "idle",
                                      !.assignedTaskId = None,
                                      !.assignedRoute = <<>>,
                                      !.hasRoute = FALSE]]

\* DroneContext.updateDroneTelemetry: the fields given replace those held
updateDroneTelemetry(ds, droneId, telemetry) ==
    [ds EXCEPT ![droneId] = [@ EXCEPT !.telemetry = telemetry @@ @]]

\* ------------------------------------------------------------ the tick loop
\* a dt that is the whole gap since lastTick, without the clamp
ClampDtWholeGap(elapsed) == elapsed

\* dt = Math.min((now - physics.lastTick) / 1000, 0.1)
ClampDt(elapsed) == Min2(elapsed, DT_CLAMP)

\* rate * dt * SIM_SPEED_MULT with dt in tenths of a second
Scaled(rate, dt) == RoundAway(rate * dt * SIM_SPEED_MULT, 10)

\* physics.speed = kph, in the records that carry the speed indicator
WithSpeed(p, kph) == IF "speed" \in DOMAIN p THEN [p EXCEPT !.speed = kph] ELSE p

\* groundSpeed * 3.6
CruiseKph == (CRUISE_SPEED * 36) \div 10

\* Battery Drain: battery_rem -= rate * dt.  The record keeps the rate the
\* last tick applied (0 when it drained nothing); the amount is drainRate * dt.
BatteryDrain(p, dt) ==
    LET rate == IF ~p.armed THEN 0
                ELSE IF p.flightMode = "STABILIZE" THEN DRAIN_STABILIZE
                ELSE DRAIN_FLIGHT
        q == [p EXCEPT !.drainRate = rate]
    IN  IF "battery_rem" \in DOMAIN p
        THEN [q EXCEPT !.battery_rem = @ - rate * dt]
        ELSE q

\* a delivery branch whose wait never ends
DeliveryLandingWaitsForever(p, dt) ==
    IF ~p.isReturningHome /\ p.deliveryWaitTime = 0
    THEN [p |-> [p EXCEPT !.deliveryWaitTime = dt], delivered |-> TRUE]
    ELSE [p |-> [p EXCEPT !.deliveryWaitTime = Min2(DELIVERY_WAIT, @ + dt)], delivered |-> FALSE]

\* a delivery branch that goes home at the first landing, without the callback
DeliveryLandingSkipsCallback(p, dt) ==
    IF ~p.isReturningHome
    THEN [p |-> [p EXCEPT !.isReturningHome = TRUE, !.armed = TRUE, !.flightMode = "RTL"],
          delivered |-> FALSE]
    ELSE [p |-> p, delivered |-> FALSE]

\* a delivery branch that already resets the waypoint index when it turns for home
DeliveryLandingResetsIndex(p, dt) ==
    IF ~p.isReturningHome /\ p.deliveryWaitTime = 0
    THEN [p |-> [p EXCEPT !.deliveryWaitTime = dt], delivered |-> TRUE]
    ELSE IF ~p.isReturningHome /\ p.deliveryWaitTime < DELIVERY_WAIT
    THEN [p |-> [p EXCEPT !.deliveryWaitTime = @ + dt], delivered |-> FALSE]
    ELSE IF ~p.isReturningHome /\ p.deliveryWaitTime >= DELIVERY_WAIT
    THEN [p |-> [p EXCEPT !.isReturningHome = TRUE, !.armed = TRUE, !.flightMode = "RTL",
                          !.activeWpIndex = -1],
          delivered |-> FALSE]
    ELSE [p |-> p, delivered |-> FALSE]

\* a delivery branch that turns for home one tick before the wait is over
DeliveryLandingLeavesEarly(p, dt) ==
    IF ~p.isReturningHome /\ p.deliveryWaitTime = 0
    THEN [p |-> [p EXCEPT !.deliveryWaitTime = dt], delivered |-> TRUE]
    ELSE IF ~p.isReturningHome /\ p.deliveryWaitTime < DELIVERY_WAIT - DT_CLAMP
    THEN [p |-> [p EXCEPT !.deliveryWaitTime = @ + dt], delivered |-> FALSE]
    ELSE IF ~p.isReturningHome /\ p.deliveryWaitTime >= DELIVERY_WAIT - DT_CLAMP
    THEN [p |-> [p EXCEPT !.isReturningHome = TRUE, !.armed = TRUE, !.flightMode = "RTL"],
          delivered |-> FALSE]
    ELSE [p |-> p, delivered |-> FALSE]

\* The NAV_LAND delivery branch (waypoint reached, command NAV_LAND, alt < 0.5)
DeliveryLanding(p, dt) ==
    IF ~p.isReturningHome /\ p.deliveryWaitTime = 0
    THEN [p |-> [p EXCEPT !.deliveryWaitTime = dt], delivered |-> TRUE]
    ELSE IF ~p.isReturningHome /\ p.deliveryWaitTime < DELIVERY_WAIT
    THEN [p |-> [p EXCEPT !.deliveryWaitTime = @ + dt], delivered |-> FALSE]
    ELSE IF ~p.isReturningHome /\ p.deliveryWaitTime >= DELIVERY_WAIT
    THEN [p |-> [p EXCEPT !.isReturningHome = TRUE, !.armed = TRUE, !.flightMode = "RTL"],
          delivered |-> FALSE]
    ELSE [p |-> p, delivered |-> FALSE]

\* 1. flight-mode logic of the tick: the new physics record, the commanded
\*    target and the coordinator / task callbacks the branch makes
FlightModeLogic(p, drone, dt) ==
    LET hold == [p |-> p, targetLat |-> p.lat, targetLng |-> p.lng, targetAlt |-> p.alt,
                 started |-> FALSE, delivered |-> FALSE, completed |-> FALSE]
    IN
    IF ~p.armed THEN hold
    ELSE IF p.flightMode = "AUTO" /\ Len(drone.assignedRoute) > 0 THEN
        LET started == p.activeWpIndex = -1
            p1 == IF started THEN [p EXCEPT !.activeWpIndex = 0] ELSE p
            route == drone.assignedRoute
        IN  IF p1.activeWpIndex + 1 > Len(route)
            THEN [hold EXCEPT !.p = p1, !.started = started]
            ELSE
            LET nextWP == route[p1.activeWpIndex + 1]
                reached == /\ DistLess(p1.lat, p1.lng, nextWP.lat, nextWP.lng, WP_RADIUS)
                           /\ Abs(p1.alt - nextWP.alt) < ALT_TOLERANCE
                atWp == [hold EXCEPT !.p = p1, !.started = started,
                                     !.targetLat = nextWP.lat, !.targetLng = nextWP.lng,
                                     !.targetAlt = nextWP.alt]
            IN  IF ~reached THEN atWp
                ELSE IF nextWP.command = "NAV_LAND" THEN
                    IF 2 * p1.alt < 1
                    THEN LET dl == DeliveryLanding(p1, dt)
                         IN  [atWp EXCEPT !.p = dl.p, !.targetAlt = 0,
                                          !.delivered = dl.delivered /\ drone.assignedTaskId # None]
                    ELSE [atWp EXCEPT !.targetAlt = 0]
                ELSE IF p1.activeWpIndex < Len(route) - 1
                    THEN [atWp EXCEPT !.p = [p1 EXCEPT !.activeWpIndex = @ + 1]]
                    ELSE atWp
    ELSE IF p.flightMode = "RTL" THEN
        LET atHome == DistLess(p.lat, p.lng, p.homeLocation.lat, p.homeLocation.lng, HOME_RADIUS)
        IN  [hold EXCEPT !.targetLat = p.homeLocation.lat, !.targetLng = p.homeLocation.lng,
                         !.targetAlt = Max2(p.alt, RTL_ALT),
                         !.p = IF atHome THEN [p EXCEPT !.flightMode = "LAND"] ELSE p]
    ELSE IF p.flightMode = "LAND" THEN
        IF 2 * p.alt < 1
        THEN LET p1 == [p EXCEPT !.armed = FALSE, !.flightMode = "STABILIZE"]
             IN  IF p.isReturningHome
                 THEN [hold EXCEPT !.targetAlt = 0, !.completed = TRUE,
                                   !.p = [p1 EXCEPT !.isReturningHome = FALSE,
                                                    !.deliveryWaitTime = 0,
                                                    !.activeWpIndex = -1]]
                 ELSE [hold EXCEPT !.targetAlt = 0, !.p = p1]
        ELSE [hold EXCEPT !.targetAlt = 0]
    ELSE hold

\* signed shortest-path heading error, wrapped to [-180, 180]
AngleDiff(bearing, heading) ==
    LET a == bearing - heading
    IN  IF a > 180 THEN a - 360 ELSE IF a < -180 THEN a + 360 ELSE a

\* a movement stage that also flies a drone in LOITER
IntegrateLoiterFlies(p, targetLat, targetLng, targetAlt, dt) ==
    IF ~p.armed THEN p
    ELSE
    LET vErr == targetAlt - p.alt
        vSpdTarget == Max2(VSPEED_MIN, Min2(VSPEED_MAX, vErr))
        vSpeed == p.vSpeed + RoundAway((vSpdTarget - p.vSpeed) * VSPEED_GAIN * dt, 10)
        alt == p.alt + Scaled(vSpeed, dt)
        pv == [p EXCEPT !.vSpeed = vSpeed, !.alt = alt]
    IN  IF p.flightMode \in {"AUTO", "RTL", "GUIDED", "LAND", "LOITER"}
        THEN LET bearing == getBearing(p.lat, p.lng, targetLat, targetLng)
                 angleDiff == AngleDiff(bearing, p.heading)
                 turn == Min2(Abs(angleDiff), TurnQ(Scaled(TURN_RATE, dt)))
                 heading == IF Abs(angleDiff) > 1
                            THEN (p.heading + Sign(angleDiff) * turn + 360) % 360
                            ELSE p.heading
                 moveDist == Scaled(CRUISE_SPEED, dt)
                 turned == [pv EXCEPT !.heading = heading]
             IN  IF moveDist > 0
                 THEN WithSpeed([turned EXCEPT !.lat = @ + moveDist * CosQ(heading),
                                               !.lng = @ + moveDist * SinQ(heading)],
                                CruiseKph)
                 ELSE turned
        ELSE pv

\* 2. physics / movement of the tick
Integrate(p, targetLat, targetLng, targetAlt, dt) ==
    IF ~p.armed THEN p
    ELSE
    LET vErr == targetAlt - p.alt
        vSpdTarget == Max2(VSPEED_MIN, Min2(VSPEED_MAX, vErr))
        vSpeed == p.vSpeed + RoundAway((vSpdTarget - p.vSpeed) * VSPEED_GAIN * dt, 10)
        alt == p.alt + Scaled(vSpeed, dt)
        pv == [p EXCEPT !.vSpeed = vSpeed, !.alt = alt]
    IN  IF p.flightMode \in {"AUTO", "RTL", "GUIDED", "LAND"}
        THEN LET bearing == getBearing(p.lat, p.lng, targetLat, targetLng)
                 angleDiff == AngleDiff(bearing, p.heading)
                 turn == Min2(Abs(angleDiff), TurnQ(Scaled(TURN_RATE, dt)))
                 heading == IF Abs(angleDiff) > 1
                            THEN (p.heading + Sign(angleDiff) * turn + 360) % 360
                            ELSE p.heading
                 moveDist == Scaled(CRUISE_SPEED, dt)
                 turned == [pv EXCEPT !.heading = heading]
             IN  IF moveDist > 0
                 THEN WithSpeed([turned EXCEPT !.lat = @ + moveDist * CosQ(heading),
                                               !.lng = @ + moveDist * SinQ(heading)],
                                CruiseKph)
                 ELSE turned
        ELSE pv

\* a manual control stage whose mode override leaves isReturningHome as it was
ManualControlKeepsReturning(p, dt, controls) ==
    LET moveSpeed == Scaled(MOVE_SPEED, dt)
        altSpeed == Scaled(ALT_SPEED, dt)
        yawSpeed == TurnQ(Scaled(YAW_SPEED, dt))
        \* Mode Override
        p1 == IF controls # {} /\ p.flightMode \in {"AUTO", "RTL", "STABILIZE"}
              THEN [p EXCEPT !.flightMode = "GUIDED"]
              ELSE p
        \* Throttle / Yaw
        alt1 == IF "up" \in controls THEN p1.alt + altSpeed ELSE p1.alt
        alt2 == IF "down" \in controls THEN Max2(0, alt1 - altSpeed) ELSE alt1
        h1 == IF "turnLeft" \in controls THEN (p1.heading - yawSpeed + 360) % 360 ELSE p1.heading
        h2 == IF "turnRight" \in controls THEN (h1 + yawSpeed) % 360 ELSE h1
        \* Pitch / Roll
        fx == IF "forward" \in controls THEN CosQ(h2)
              ELSE IF "backward" \in controls THEN -CosQ(h2) ELSE 0
        fy == IF "forward" \in controls THEN SinQ(h2)
              ELSE IF "backward" \in controls THEN -SinQ(h2) ELSE 0
        sx == IF "left" \in controls THEN CosQ((h2 + 270) % 360)
              ELSE IF "right" \in controls THEN CosQ((h2 + 90) % 360) ELSE 0
        sy == IF "left" \in controls THEN SinQ((h2 + 270) % 360)
              ELSE IF "right" \in controls THEN SinQ((h2 + 90) % 360) ELSE 0
        flown == [p1 EXCEPT !.alt = alt2, !.heading = h2,
                            !.lat = @ + moveSpeed * (fx + sx),
                            !.lng = @ + moveSpeed * (fy + sy)]
    IN  IF controls # {} THEN WithSpeed(flown, MANUAL_SPEED_KPH) ELSE flown

\* 4. manual control system of the tick (selected, armed drone only)
ManualControl(p, dt, controls) ==
    LET moveSpeed == Scaled(MOVE_SPEED, dt)
        altSpeed == Scaled(ALT_SPEED, dt)
        yawSpeed == TurnQ(Scaled(YAW_SPEED, dt))
        \* Mode Override
        p1 == IF controls # {} /\ p.flightMode \in {"AUTO", "RTL", "STABILIZE"}
              THEN [p EXCEPT !.flightMode = "GUIDED", !.isReturningHome = FALSE]
              ELSE p
        \* Throttle / Yaw
        alt1 == IF "up" \in controls THEN p1.alt + altSpeed ELSE p1.alt
        alt2 == IF "down" \in controls THEN Max2(0, alt1 - altSpeed) ELSE alt1
        h1 == IF "turnLeft" \in controls THEN (p1.heading - yawSpeed + 360) % 360 ELSE p1.heading
        h2 == IF "turnRight" \in controls THEN (h1 + yawSpeed) % 360 ELSE h1
        \* Pitch / Roll
        fx == IF "forward" \in controls THEN CosQ(h2)
              ELSE IF "backward" \in controls THEN -CosQ(h2) ELSE 0
        fy == IF "forward" \in controls THEN SinQ(h2)
              ELSE IF "backward" \in controls THEN -SinQ(h2) ELSE 0
        sx == IF "left" \in controls THEN CosQ((h2 + 270) % 360)
              ELSE IF "right" \in controls THEN CosQ((h2 + 90) % 360) ELSE 0
        sy == IF "left" \in controls THEN SinQ((h2 + 270) % 360)
              ELSE IF "right" \in controls THEN SinQ((h2 + 90) % 360) ELSE 0
        flown == [p1 EXCEPT !.alt = alt2, !.heading = h2,
                            !.lat = @ + moveSpeed * (fx + sx),
                            !.lng = @ + moveSpeed * (fy + sy)]
    IN  IF controls # {} THEN WithSpeed(flown, MANUAL_SPEED_KPH) ELSE flown

\* tenths of a second since the drone's lastTick, at a tick that comes step
\* after the previous one
Elapsed(p, step) == Min2(p.sinceTick + step, MaxGap)

\* a loop body without the route gate
TickDroneNoGate(p, drone, elapsed, ml, moved, final, manual, controls) ==
    [p |-> final, started |-> ml.started, delivered |-> ml.delivered,
          completed |-> ml.completed,
          rtl |-> ml.p.isReturningHome /\ ~p.isReturningHome,
          manual |-> manual /\ controls # {} /\ final.flightMode # moved.flightMode,
          overrodeRtl |-> /\ manual /\ controls # {}
                          /\ moved.flightMode = "RTL" /\ moved.isReturningHome
                          /\ final.flightMode = "GUIDED"]

\* one drone's update in a tick: skipped without a route (lastTick is not
\* advanced), else the stages' outcome and the callbacks made
TickDrone(p, drone, elapsed, ml, moved, final, manual, controls) ==
    IF ~drone.hasRoute
    THEN [p |-> [p EXCEPT !.sinceTick = elapsed, !.drainRate = 0], started |-> FALSE, delivered |-> FALSE,
          completed |-> FALSE, rtl |-> FALSE, manual |-> FALSE, overrodeRtl |-> FALSE]
    ELSE [p |-> final, started |-> ml.started, delivered |-> ml.delivered,
          completed |-> ml.completed,
          rtl |-> ml.p.isReturningHome /\ ~p.isReturningHome,
          manual |-> manual /\ controls # {} /\ final.flightMode # moved.flightMode,
          overrodeRtl |-> /\ manual /\ controls # {}
                          /\ moved.flightMode = "RTL" /\ moved.isReturningHome
                          /\ final.flightMode = "GUIDED"]

\* 3. Update telemetry (Basic): what the tick publishes after the movement stage
BasicTelemetry(p) ==
    [latitude |-> p.lat, longitude |-> p.lng, altitude |-> p.alt, speed |-> p.speed,
     verticalSpeed |-> p.vSpeed, battery |-> p.battery_rem, bearing |-> p.heading,
     status |-> IF p.armed THEN "ENROUTE" ELSE "IDLE"]

\* what the manual control stage publishes when an axis has moved the vehicle
ManualTelemetry(p) ==
    [latitude |-> p.lat, longitude |-> p.lng, altitude |-> p.alt, bearing |-> p.heading,
     status |-> "ENROUTE"]

\* the telemetry updates one drone's tick makes, in the fleet records that
\* carry telemetry: none for a drone the loop passes over (gated)
TickTelemetry(ds, d, gated, moved, final, manual, controls) ==
    IF gated \/ "telemetry" \notin DOMAIN ds[d] THEN ds
    ELSE LET ds1 == updateDroneTelemetry(ds, d, BasicTelemetry(moved))
         IN  IF manual /\ controls # {}
             THEN updateDroneTelemetry(ds1, d, ManualTelemetry(final))
             ELSE ds1

\* the coordinator updates one drone's tick makes: updateDroneStatus(id, 'running')
\* at mission start, completeDroneTask(id) at the home landing
TickCoordinator(ds, d, r) ==
    LET ds1 == IF r.started THEN updateDroneStatus(ds, d, "running") ELSE ds
    IN  IF r.completed THEN completeDroneTask(ds1, d) ELSE ds1

TickEvents(r, d) ==
    {<<d, e>> : e \in {x \in {"MISSION STARTED", "DELIVERED", "INITIATING RTL",
                              "RELEASED", "MANUAL CONTROL ACTIVE"} :
                       \/ x = "MISSION STARTED" /\ r.started
                       \/ x = "DELIVERED" /\ r.delivered
                       \/ x = "INITIATING RTL" /\ r.rtl
                       \/ x = "RELEASED" /\ r.completed
                       \/ x = "MANUAL CONTROL ACTIVE" /\ r.manual}}

\* one iteration of the loop body of tick, for one drone: its own physics
\* record and fleet entry, the timestamp, whether it is the selected drone,
\* and the axes held
TickOne(p, drone, step, selected, controls) ==
    LET elapsed == Elapsed(p, step)
        dt == ClampDt(elapsed)
        ml == FlightModeLogic(BatteryDrain([p EXCEPT !.sinceTick = 0], dt), drone, dt)
        moved == Integrate(ml.p, ml.targetLat, ml.targetLng, ml.targetAlt, dt)
        final == IF moved.armed /\ selected THEN ManualControl(moved, dt, controls) ELSE moved
    IN  TickDrone(p, drone, elapsed, ml, moved, final, moved.armed /\ selected, controls)

\* a physics loop that flies every drone along the route of the first drone that has one
TickSharedRoute(step) ==
    \E ml \in {[d \in Drones |->
                  FlightModeLogic(BatteryDrain([physics[d] EXCEPT !.sinceTick = 0],
                                               ClampDt(Elapsed(physics[d], step))),
                                  IF drones[d].hasRoute
                                  THEN drones[CHOOSE e \in Drones : drones[e].hasRoute /\ \A f \in Drones : drones[f].hasRoute => e <= f]
                                  ELSE drones[d],
                                  ClampDt(Elapsed(physics[d], step)))]} :
    \E moved \in {[d \in Drones |->
                  Integrate(ml[d].p, ml[d].targetLat, ml[d].targetLng, ml[d].targetAlt,
                            ClampDt(Elapsed(physics[d], step)))]} :
    \E final \in {[d \in Drones |->
                  IF moved[d].armed /\ d = selectedDroneId
                  THEN ManualControl(moved[d], ClampDt(Elapsed(physics[d], step)), activeControls)
                  ELSE moved[d]]} :
    \E res \in {[d \in Drones |->
                  TickDrone(physics[d], drones[d], Elapsed(physics[d], step), ml[d], moved[d],
                            final[d], moved[d].armed /\ d = selectedDroneId, activeControls)]} :
    LET doneFor(r) == Cardinality({d \in Drones : res[d].delivered /\ drones[d].assignedTaskId = r})
    IN  /\ \A d \in Drones : /\ res[d].p.alt <= MaxAlt
                            /\ Abs(res[d].p.lat) <= MaxRange
                            /\ Abs(res[d].p.lng) <= MaxRange
        /\ physics' = [d \in Drones |-> res[d].p]
        /\ drones' = [d \in Drones |->
                        TickTelemetry(TickCoordinator(drones, d, res[d]), d,
                                      ~drones[d].hasRoute, moved[d], final[d],
                                      moved[d].armed /\ d = selectedDroneId, activeControls)[d]]
        /\ requests' = [r \in Requests |-> IF doneFor(r) > 0 THEN "completed" ELSE requests[r]]
        /\ completedCalls' = [r \in Requests |-> Min2(CallCap, completedCalls[r] + doneFor(r))]
        /\ ghost' = [d \in Drones |->
                       [ghost[d] EXCEPT
                          !.calls = Min2(CallCap, @ + (IF res[d].delivered THEN 1 ELSE 0)),
                          !.wasReturning = @ \/ res[d].p.isReturningHome \/ res[d].rtl,
                          !.overrodeRtl = @ \/ res[d].overrodeRtl]]
        /\ lastEvent' = [op |-> "tick", events |-> UNION {TickEvents(res[d], d) : d \in Drones}]
        /\ UNCHANGED <<selectedDroneId, activeControls, gpsFix, preflightChecks, timers, opsLeft>>

\* a physics loop whose manual control stage does not ask whether the drone is armed
TickManualUnarmed(step) ==
    \E ml \in {[d \in Drones |->
                  FlightModeLogic(BatteryDrain([physics[d] EXCEPT !.sinceTick = 0],
                                               ClampDt(Elapsed(physics[d], step))),
                                  drones[d], ClampDt(Elapsed(physics[d], step)))]} :
    \E moved \in {[d \in Drones |->
                  Integrate(ml[d].p, ml[d].targetLat, ml[d].targetLng, ml[d].targetAlt,
                            ClampDt(Elapsed(physics[d], step)))]} :
    \E final \in {[d \in Drones |->
                  IF d = selectedDroneId
                  THEN ManualControl(moved[d], ClampDt(Elapsed(physics[d], step)), activeControls)
                  ELSE moved[d]]} :
    \E res \in {[d \in Drones |->
                  TickDrone(physics[d], drones[d], Elapsed(physics[d], step), ml[d], moved[d],
                            final[d], d = selectedDroneId, activeControls)]} :
    LET doneFor(r) == Cardinality({d \in Drones : res[d].delivered /\ drones[d].assignedTaskId = r})
    IN  /\ \A d \in Drones : /\ res[d].p.alt <= MaxAlt
                            /\ Abs(res[d].p.lat) <= MaxRange
                            /\ Abs(res[d].p.lng) <= MaxRange
        /\ physics' = [d \in Drones |-> res[d].p]
        /\ drones' = [d \in Drones |->
                        TickTelemetry(TickCoordinator(drones, d, res[d]), d,
                                      ~drones[d].hasRoute, moved[d], final[d],
                                      d = selectedDroneId, activeControls)[d]]
        /\ requests' = [r \in Requests |-> IF doneFor(r) > 0 THEN "completed" ELSE requests[r]]
        /\ completedCalls' = [r \in Requests |-> Min2(CallCap, completedCalls[r] + doneFor(r))]
        /\ ghost' = [d \in Drones |->
                       [ghost[d] EXCEPT
                          !.calls = Min2(CallCap, @ + (IF res[d].delivered THEN 1 ELSE 0)),
                          !.wasReturning = @ \/ res[d].p.isReturningHome \/ res[d].rtl,
                          !.overrodeRtl = @ \/ res[d].overrodeRtl]]
        /\ lastEvent' = [op |-> "tick", events |-> UNION {TickEvents(res[d], d) : d \in Drones}]
        /\ UNCHANGED <<selectedDroneId, activeControls, gpsFix, preflightChecks, timers, opsLeft>>

\* PHYSICS LOOP (ALL DRONES): one requestAnimationFrame callback, step tenths of
\* a second after the previous one
Tick(step) ==
    \E ml \in {[d \in Drones |->
                  FlightModeLogic(BatteryDrain([physics[d] EXCEPT !.sinceTick = 0],
                                               ClampDt(Elapsed(physics[d], step))),
                                  drones[d], ClampDt(Elapsed(physics[d], step)))]} :
    \E moved \in {[d \in Drones |->
                  Integrate(ml[d].p, ml[d].targetLat, ml[d].targetLng, ml[d].targetAlt,
                            ClampDt(Elapsed(physics[d], step)))]} :
    \E final \in {[d \in Drones |->
                  IF moved[d].armed /\ d = selectedDroneId
                  THEN ManualControl(moved[d], ClampDt(Elapsed(physics[d], step)), activeControls)
                  ELSE moved[d]]} :
    \E res \in {[d \in Drones |->
                  TickDrone(physics[d], drones[d], Elapsed(physics[d], step), ml[d], moved[d],
                            final[d], moved[d].armed /\ d = selectedDroneId, activeControls)]} :
    LET doneFor(r) == Cardinality({d \in Drones : res[d].delivered /\ drones[d].assignedTaskId = r})
    IN  /\ \A d \in Drones : /\ res[d].p.alt <= MaxAlt
                            /\ Abs(res[d].p.lat) <= MaxRange
                            /\ Abs(res[d].p.lng) <= MaxRange
        /\ physics' = [d \in Drones |-> res[d].p]
        /\ drones' = [d \in Drones |->
                        TickTelemetry(TickCoordinator(drones, d, res[d]), d,
                                      ~drones[d].hasRoute, moved[d], final[d],
                                      moved[d].armed /\ d = selectedDroneId, activeControls)[d]]
        /\ requests' = [r \in Requests |-> IF doneFor(r) > 0 THEN "completed" ELSE requests[r]]
        /\ completedCalls' = [r \in Requests |-> Min2(CallCap, completedCalls[r] + doneFor(r))]
        /\ ghost' = [d \in Drones |->
                       [ghost[d] EXCEPT
                          !.calls = Min2(CallCap, @ + (IF res[d].delivered THEN 1 ELSE 0)),
                          !.wasReturning = @ \/ res[d].p.isReturningHome \/ res[d].rtl,
                          !.overrodeRtl = @ \/ res[d].overrodeRtl]]
        /\ lastEvent' = [op |-> "tick", events |-> UNION {TickEvents(res[d], d) : d \in Drones}]
        /\ UNCHANGED <<selectedDroneId, activeControls, gpsFix, preflightChecks, timers, opsLeft>>

\* ------------------------------------------------------------- dispatch
Event(op, d, text) == [op |-> op, events |-> {<<d, text>>}]

\* a dispatch that falls back on the first drone when none is available
handleDispatchFallback(id) ==
    LET availableDrone == IF getAvailableDrone(drones) = None THEN 1 ELSE getAvailableDrone(drones)
        route == generateRouteForTask(hubLocation, RequestLocation(id))
    IN  /\ drones' = assignTaskToDrone(drones, availableDrone, id, route)
        /\ requests' = [requests EXCEPT ![id] = "dispatched"]
        /\ ghost' = [ghost EXCEPT ![availableDrone] = InitialGhost]
        /\ lastEvent' = Event("handleDispatch", availableDrone, "dispatched")

\* DispatchDashboard.handleDispatch, from the DISPATCH button of a pending request
handleDispatch(id) ==
    LET availableDrone == getAvailableDrone(drones)
        route == generateRouteForTask(hubLocation, RequestLocation(id))
    IN  IF availableDrone = None
        THEN /\ lastEvent' = Event("handleDispatch", None, "No drones available!")
             /\ UNCHANGED <<drones, requests, ghost>>
        ELSE /\ drones' = assignTaskToDrone(drones, availableDrone, id, route)
             /\ requests' = [requests EXCEPT ![id] = "dispatched"]
             /\ ghost' = [ghost EXCEPT ![availableDrone] = InitialGhost]
             /\ lastEvent' = Event("handleDispatch", availableDrone, "dispatched")

HandleDispatch(id) ==
    /\ requests[id] = "pending"
    /\ handleDispatch(id)
    /\ UNCHANGED <<physics, selectedDroneId, activeControls, gpsFix, preflightChecks,
                   timers, completedCalls, opsLeft>>

\* ------------------------------------------------- boot and timer callbacks
\* INIT SYSTEMS: the boot sequence acquires the GPS lock after 3 s
GpsLock ==
    /\ gpsFix = "NO_FIX"
    /\ gpsFix' = "3D_FIX"
    /\ lastEvent' = Event("boot", None, "GPS 3D LOCK ACQUIRED")
    /\ UNCHANGED <<drones, physics, selectedDroneId, activeControls, preflightChecks,
                   timers, requests, completedCalls, opsLeft, ghost>>

CheckTimers == {<<"check", i>> : i \in 1..Len(PreflightSteps)}

\* a preflight step's timer (600 ms or 800 ms apart, in step order)
PreflightTimer(i) ==
    /\ <<"check", i>> \in timers
    /\ \A j \in 1..(i - 1) : <<"check", j>> \notin timers
    /\ timers' = timers \ {<<"check", i>>}
    /\ preflightChecks' = preflightChecks \cup {PreflightSteps[i]}
    /\ lastEvent' = Event("timer", None, PreflightSteps[i])
    /\ UNCHANGED <<drones, physics, selectedDroneId, activeControls, gpsFix,
                   requests, completedCalls, opsLeft, ghost>>

\* armSystem's last timer (3200 ms): arms the drone that was selected at the request
ArmTimer(d) ==
    /\ <<"arm", d>> \in timers
    /\ timers \cap CheckTimers = {}
    /\ timers' = timers \ {<<"arm", d>>}
    /\ physics' = [physics EXCEPT ![d].armed = TRUE]
    /\ lastEvent' = Event("timer", d, "MOTORS ARMED")
    /\ UNCHANGED <<drones, selectedDroneId, activeControls, gpsFix, preflightChecks,
                   requests, completedCalls, opsLeft, ghost>>

\* ---------------------------------------------------------- operator actions
\* the drone list: setSelectedDroneId(drone.id)
SelectDrone(d) ==
    /\ selectedDroneId' = d
    /\ lastEvent' = Event("select", d, "selected")
    /\ UNCHANGED <<drones, physics, activeControls, gpsFix, preflightChecks, timers,
                   requests, completedCalls, ghost>>

runPreflight ==
    /\ timers' = timers \cup CheckTimers
    /\ lastEvent' = Event("runPreflight", None, "checklist open")
    /\ UNCHANGED <<drones, physics, selectedDroneId, activeControls, gpsFix,
                   preflightChecks, requests, completedCalls, ghost>>

\* armSystem without the GPS gate
armSystemIgnoresGps ==
    LET d == selectedDroneId
    IN  /\ IF d = None
           THEN /\ lastEvent' = Event("armSystem", None, "ARM FAIL: NO DRONE SELECTED")
                /\ UNCHANGED <<physics, timers, ghost>>
           ELSE IF preflightChecks # {PreflightSteps[i] : i \in 1..Len(PreflightSteps)}
           THEN /\ timers' = timers \cup CheckTimers \cup {<<"arm", d>>}
                /\ ghost' = [ghost EXCEPT ![d].armReq = TRUE]
                /\ lastEvent' = Event("armSystem", d, "AUTO-SEQUENCING PREFLIGHT CHECKS")
                /\ UNCHANGED physics
           ELSE /\ physics' = [physics EXCEPT ![d].armed = TRUE]
                /\ ghost' = [ghost EXCEPT ![d].armReq = TRUE]
                /\ lastEvent' = Event("armSystem", d, "MOTORS ARMED")
                /\ UNCHANGED timers
        /\ UNCHANGED <<drones, selectedDroneId, activeControls, gpsFix, preflightChecks,
                       requests, completedCalls>>

armSystem ==
    LET d == selectedDroneId
    IN  /\ IF d = None
           THEN /\ lastEvent' = Event("armSystem", None, "ARM FAIL: NO DRONE SELECTED")
                /\ UNCHANGED <<physics, timers, ghost>>
           ELSE IF gpsFix = "NO_FIX"
           THEN /\ lastEvent' = Event("armSystem", d, "ARM FAIL: NO GPS FIX")
                /\ UNCHANGED <<physics, timers, ghost>>
           ELSE IF preflightChecks # {PreflightSteps[i] : i \in 1..Len(PreflightSteps)}
           THEN /\ timers' = timers \cup CheckTimers \cup {<<"arm", d>>}
                /\ ghost' = [ghost EXCEPT ![d].armReq = TRUE]
                /\ lastEvent' = Event("armSystem", d, "AUTO-SEQUENCING PREFLIGHT CHECKS")
                /\ UNCHANGED physics
           ELSE /\ physics' = [physics EXCEPT ![d].armed = TRUE]
                /\ ghost' = [ghost EXCEPT ![d].armReq = TRUE]
                /\ lastEvent' = Event("armSystem", d, "MOTORS ARMED")
                /\ UNCHANGED timers
        /\ UNCHANGED <<drones, selectedDroneId, activeControls, gpsFix, preflightChecks,
                       requests, completedCalls>>

\* a disarm that reaches every drone on the ground, not the selected one alone
disarmSystemFleet ==
    LET d == selectedDroneId
    IN  /\ IF d = None
           THEN /\ lastEvent' = Event("disarmSystem", None, "ignored")
                /\ UNCHANGED physics
           ELSE IF physics[d].alt > DISARM_MAX_ALT
           THEN /\ lastEvent' = Event("disarmSystem", d, "DISARM REJECTED: VEHICLE AIRBORNE")
                /\ UNCHANGED physics
           ELSE /\ physics' = [e \in Drones |->
                                 IF physics[e].alt > DISARM_MAX_ALT THEN physics[e]
                                 ELSE [physics[e] EXCEPT !.armed = FALSE,
                                                         !.flightMode = "STABILIZE"]]
                /\ lastEvent' = Event("disarmSystem", d, "MOTORS DISARMED")
        /\ UNCHANGED <<drones, selectedDroneId, activeControls, gpsFix, preflightChecks,
                       timers, requests, completedCalls, ghost>>

\* a disarm that leaves the flight mode as it was
disarmSystemKeepsMode ==
    LET d == selectedDroneId
    IN  /\ IF d = None
           THEN /\ lastEvent' = Event("disarmSystem", None, "ignored")
                /\ UNCHANGED physics
           ELSE IF physics[d].alt > DISARM_MAX_ALT
           THEN /\ lastEvent' = Event("disarmSystem", d, "DISARM REJECTED: VEHICLE AIRBORNE")
                /\ UNCHANGED physics
           ELSE /\ physics' = [physics EXCEPT ![d].armed = FALSE]
                /\ lastEvent' = Event("disarmSystem", d, "MOTORS DISARMED")
        /\ UNCHANGED <<drones, selectedDroneId, activeControls, gpsFix, preflightChecks,
                       timers, requests, completedCalls, ghost>>

\* disarmSystem without the altitude gate
disarmSystemAnyAltitude ==
    LET d == selectedDroneId
    IN  /\ IF d = None
           THEN /\ lastEvent' = Event("disarmSystem", None, "ignored")
                /\ UNCHANGED physics
           ELSE /\ physics' = [physics EXCEPT ![d].armed = FALSE, ![d].flightMode = "STABILIZE"]
                /\ lastEvent' = Event("disarmSystem", d, "MOTORS DISARMED")
        /\ UNCHANGED <<drones, selectedDroneId, activeControls, gpsFix, preflightChecks,
                       timers, requests, completedCalls, ghost>>

disarmSystem ==
    LET d == selectedDroneId
    IN  /\ IF d = None
           THEN /\ lastEvent' = Event("disarmSystem", None, "ignored")
                /\ UNCHANGED physics
           ELSE IF physics[d].alt > DISARM_MAX_ALT
           THEN /\ lastEvent' = Event("disarmSystem", d, "DISARM REJECTED: VEHICLE AIRBORNE")
                /\ UNCHANGED physics
           ELSE /\ physics' = [physics EXCEPT ![d].armed = FALSE, ![d].flightMode = "STABILIZE"]
                /\ lastEvent' = Event("disarmSystem", d, "MOTORS DISARMED")
        /\ UNCHANGED <<drones, selectedDroneId, activeControls, gpsFix, preflightChecks,
                       timers, requests, completedCalls, ghost>>

\* setMode that refuses AUTO only when the vehicle has no route at all: an
\* empty route and a disarmed vehicle pass
setModeAutoUnchecked(mode) ==
    LET d == selectedDroneId
    IN  /\ IF d = None
           THEN /\ lastEvent' = Event("setMode", None, "ignored")
                /\ UNCHANGED <<physics, ghost>>
           ELSE IF mode = "AUTO" /\ ~drones[d].hasRoute
           THEN /\ lastEvent' = Event("setMode", d, "AUTO FAIL: NO MISSION")
                /\ UNCHANGED <<physics, ghost>>
           ELSE /\ physics' = [physics EXCEPT ![d] =
                      IF mode # "RTL"
                      THEN [@ EXCEPT !.flightMode = mode, !.isReturningHome = FALSE,
                                     !.deliveryWaitTime = 0]
                      ELSE [@ EXCEPT !.flightMode = mode]]
                /\ ghost' = [ghost EXCEPT ![d].overrodeRtl = FALSE]
                /\ lastEvent' = Event("setMode", d, mode)
        /\ UNCHANGED <<drones, selectedDroneId, activeControls, gpsFix, preflightChecks,
                       timers, requests, completedCalls>>

\* a setMode that forgets the mission's progress at every change of mode
setModeResetsIndex(mode) ==
    LET d == selectedDroneId
    IN  /\ IF d = None
           THEN /\ lastEvent' = Event("setMode", None, "ignored")
                /\ UNCHANGED <<physics, ghost>>
           ELSE IF mode = "AUTO" /\ (~drones[d].hasRoute \/ Len(drones[d].assignedRoute) = 0)
           THEN /\ lastEvent' = Event("setMode", d, "AUTO FAIL: NO MISSION")
                /\ UNCHANGED <<physics, ghost>>
           ELSE IF mode = "AUTO" /\ ~physics[d].armed
           THEN /\ lastEvent' = Event("setMode", d, "AUTO FAIL: ARM FIRST")
                /\ UNCHANGED <<physics, ghost>>
           ELSE /\ physics' = [physics EXCEPT ![d] =
                      IF mode # "RTL"
                      THEN [@ EXCEPT !.flightMode = mode, !.isReturningHome = FALSE,
                                     !.deliveryWaitTime = 0, !.activeWpIndex = -1]
                      ELSE [@ EXCEPT !.flightMode = mode]]
                /\ ghost' = [ghost EXCEPT ![d].overrodeRtl = FALSE]
                /\ lastEvent' = Event("setMode", d, mode)
        /\ UNCHANGED <<drones, selectedDroneId, activeControls, gpsFix, preflightChecks,
                       timers, requests, completedCalls>>

setMode(mode) ==
    LET d == selectedDroneId
    IN  /\ IF d = None
           THEN /\ lastEvent' = Event("setMode", None, "ignored")
                /\ UNCHANGED <<physics, ghost>>
           ELSE IF mode = "AUTO" /\ (~drones[d].hasRoute \/ Len(drones[d].assignedRoute) = 0)
           THEN /\ lastEvent' = Event("setMode", d, "AUTO FAIL: NO MISSION")
                /\ UNCHANGED <<physics, ghost>>
           ELSE IF mode = "AUTO" /\ ~physics[d].armed
           THEN /\ lastEvent' = Event("setMode", d, "AUTO FAIL: ARM FIRST")
                /\ UNCHANGED <<physics, ghost>>
           ELSE /\ physics' = [physics EXCEPT ![d] =
                      IF mode # "RTL"
                      THEN [@ EXCEPT !.flightMode = mode, !.isReturningHome = FALSE,
                                     !.deliveryWaitTime = 0]
                      ELSE [@ EXCEPT !.flightMode = mode]]
                /\ ghost' = [ghost EXCEPT ![d].overrodeRtl = FALSE]
                /\ lastEvent' = Event("setMode", d, mode)
        /\ UNCHANGED <<drones, selectedDroneId, activeControls, gpsFix, preflightChecks,
                       timers, requests, completedCalls>>

\* a joystick handler whose initial override reaches every drone in AUTO or RTL
handleManualControlAll(action, active) ==
    LET d == selectedDroneId
        override == active /\ d # None /\ physics[d].flightMode \in {"AUTO", "RTL"}
    IN  /\ activeControls' = IF active THEN activeControls \cup {action}
                             ELSE activeControls \ {action}
        /\ physics' = IF active
                      THEN [e \in Drones |->
                              IF physics[e].flightMode \in {"AUTO", "RTL"}
                              THEN [physics[e] EXCEPT !.flightMode = "GUIDED",
                                                      !.isReturningHome = FALSE]
                              ELSE physics[e]]
                      ELSE physics
        /\ ghost' = IF override /\ physics[d].flightMode = "RTL" /\ physics[d].isReturningHome
                    THEN [ghost EXCEPT ![d].overrodeRtl = TRUE]
                    ELSE ghost
        /\ lastEvent' = Event("handleManualControl", d,
                              IF override THEN "MANUAL OVERRIDE: SWITCHING TO GUIDED" ELSE action)
        /\ UNCHANGED <<drones, selectedDroneId, gpsFix, preflightChecks, timers,
                       requests, completedCalls>>

\* the virtual joystick
handleManualControl(action, active) ==
    LET d == selectedDroneId
        override == active /\ d # None /\ physics[d].flightMode \in {"AUTO", "RTL"}
    IN  /\ activeControls' = IF active THEN activeControls \cup {action}
                             ELSE activeControls \ {action}
        /\ physics' = IF override
                      THEN [physics EXCEPT ![d].flightMode = "GUIDED",
                                           ![d].isReturningHome = FALSE]
                      ELSE physics
        /\ ghost' = IF override /\ physics[d].flightMode = "RTL" /\ physics[d].isReturningHome
                    THEN [ghost EXCEPT ![d].overrodeRtl = TRUE]
                    ELSE ghost
        /\ lastEvent' = Event("handleManualControl", d,
                              IF override THEN "MANUAL OVERRIDE: SWITCHING TO GUIDED" ELSE action)
        /\ UNCHANGED <<drones, selectedDroneId, gpsFix, preflightChecks, timers,
                       requests, completedCalls>>

\* the keyboard listeners: keydown / keyup only record the axis
handleKey(action, active) ==
    /\ activeControls' = IF active THEN activeControls \cup {action}
                         ELSE activeControls \ {action}
    /\ lastEvent' = Event("key", None, action)
    /\ UNCHANGED <<drones, physics, selectedDroneId, gpsFix, preflightChecks, timers,
                   requests, completedCalls, ghost>>

\* dragging a waypoint marker of a drawn route: dragend calls updateDroneRoute
DragLocations == {[lat |-> 0, lng |-> 0], [lat |-> DestNorth, lng |-> 0]}

WaypointDrag(d, index, loc) ==
    /\ drones[d].hasRoute
    /\ index \in 1..Len(drones[d].assignedRoute)
    /\ LET item == drones[d].assignedRoute[index]
           updatedRoute == [drones[d].assignedRoute EXCEPT
                              ![index] = [item EXCEPT !.lat = loc.lat, !.lng = loc.lng]]
       IN  drones' = updateDroneRoute(drones, d, updatedRoute)
    /\ lastEvent' = Event("dragend", d, "route updated")
    /\ UNCHANGED <<physics, selectedDroneId, activeControls, gpsFix, preflightChecks,
                   timers, requests, completedCalls, ghost>>

\* App.renderContent: the operator leaves the mission view for the dispatch or
\* the request view and comes back.  MissionControl is unmounted and mounted
\* again: its state and refs are created anew (gpsFix, activeControls,
\* preflightChecks, dronePhysicsRef), the timers of the old instance no longer
\* reach anything, the boot sequence and the physics initialisation run again.
\* The DroneProvider above it stays mounted.
Remount ==
    /\ physics' = [d \in Drones |-> InitialPhysics]
    /\ activeControls' = {}
    /\ gpsFix' = "NO_FIX"
    /\ preflightChecks' = {}
    /\ timers' = {}
    /\ lastEvent' = Event("remount", None, "SYSTEM BOOT INITIATED")
    /\ UNCHANGED <<drones, selectedDroneId, requests, completedCalls, ghost>>

\* ------------------------------------------- the coordinator's operations
\* DroneContext's operations as a caller may invoke them, with any arguments
AssignTaskToDrone(d, taskId, route) ==
    /\ drones' = assignTaskToDrone(drones, d, taskId, route)
    /\ ghost' = [ghost EXCEPT ![d] = InitialGhost]
    /\ lastEvent' = Event("assignTaskToDrone", d, drones[d].status)
    /\ UNCHANGED <<physics, selectedDroneId, activeControls, gpsFix, preflightChecks,
                   timers, requests, completedCalls>>

UpdateDroneStatus(d, status) ==
    /\ drones' = updateDroneStatus(drones, d, status)
    /\ lastEvent' = Event("updateDroneStatus", d, status)
    /\ UNCHANGED <<physics, selectedDroneId, activeControls, gpsFix, preflightChecks,
                   timers, requests, completedCalls, ghost>>

UpdateDroneRoute(d, route) ==
    /\ drones' = updateDroneRoute(drones, d, route)
    /\ lastEvent' = Event("updateDroneRoute", d, "route updated")
    /\ UNCHANGED <<physics, selectedDroneId, activeControls, gpsFix, preflightChecks,
                   timers, requests, completedCalls, ghost>>

CompleteDroneTask(d) ==
    /\ drones' = completeDroneTask(drones, d)
    /\ lastEvent' = Event("completeDroneTask", d, "idle")
    /\ UNCHANGED <<physics, selectedDroneId, activeControls, gpsFix, preflightChecks,
                   timers, requests, completedCalls, ghost>>

\* ------------------------------------------------------------ specifications
Steps == 0..MaxStep
Selected(d) == selectedDroneId = d

\* The nominal mission: requests are dispatched, the operator selects a
\* dispatched vehicle, arms it (through the preflight sequence the first time)
\* and sets AUTO; after that only the tick loop runs for that vehicle.
StartSelect ==
    \E d \in Drones :
        /\ drones[d].status = "dispatched"
        /\ ~physics[d].armed
        /\ ~Selected(d)
        /\ <<"arm", d>> \notin timers
        /\ SelectDrone(d)
        /\ UNCHANGED opsLeft

StartArm ==
    /\ selectedDroneId # None
    /\ drones[selectedDroneId].status = "dispatched"
    /\ ~physics[selectedDroneId].armed
    /\ gpsFix # "NO_FIX"
    /\ <<"arm", selectedDroneId>> \notin timers
    /\ armSystem
    /\ UNCHANGED opsLeft

StartAuto ==
    /\ selectedDroneId # None
    /\ drones[selectedDroneId].status = "dispatched"
    /\ physics[selectedDroneId].armed
    /\ physics[selectedDroneId].flightMode = "STABILIZE"
    /\ setMode("AUTO")
    /\ UNCHANGED opsLeft

Timers ==
    \/ \E i \in 1..Len(PreflightSteps) : PreflightTimer(i)
    \/ \E d \in Drones : ArmTimer(d)

Dispatch == \E id \in Requests : HandleDispatch(id)

\* the dispatcher sends the next request out when the fleet is back
DispatchNext == (\A d \in Drones : drones[d].status = "idle") /\ Dispatch

Ticks == \E step \in Steps : Tick(step)

NextMission ==
    \/ GpsLock
    \/ DispatchNext
    \/ StartSelect
    \/ StartArm
    \/ StartAuto
    \/ Timers
    \/ Ticks

SpecMission == Init /\ [][NextMission]_vars

\* requestAnimationFrame keeps calling tick, and the clock advances
SpecMissionFair == SpecMission /\ WF_vars(Ticks)

\* Operator interleavings: the mission's starting commands as above, and up
\* to MaxOps further commands of the flight panel, the joystick, the keyboard
\* and the map, at any moment, on the vehicle next in line for dispatch or on
\* a vehicle that is on a mission.  The operator attends to one vehicle at a
\* time and uses the axes OpAxes.
Spend == opsLeft > 0 /\ opsLeft' = opsLeft - 1

OpAxes == {"up", "forward", "turnLeft"}

UiModes == {"LAND", "LOITER", "AUTO", "RTL", "GUIDED"}

SelectNext ==
    \E d \in Drones :
        /\ \/ drones[d].status # "idle"
           \/ d = getAvailableDrone(drones) /\ \A e \in Drones : drones[e].status = "idle"
        /\ ~Selected(d)
        /\ IF selectedDroneId = None THEN TRUE ELSE drones[selectedDroneId].status = "idle"
        /\ SelectDrone(d)
        /\ UNCHANGED opsLeft

OpArm == selectedDroneId # None /\ armSystem /\ Spend
OpDisarm == selectedDroneId # None /\ disarmSystem /\ Spend
OpSetMode == \E mode \in UiModes : selectedDroneId # None /\ setMode(mode) /\ Spend
OpManual == \E a \in OpAxes, active \in BOOLEAN : selectedDroneId # None /\ handleManualControl(a, active) /\ Spend
OpKey == \E a \in OpAxes, active \in BOOLEAN : handleKey(a, active) /\ Spend
OpDrag == \E d \in Drones, loc \in DragLocations :
              \E index \in 1..Len(drones[d].assignedRoute) : WaypointDrag(d, index, loc) /\ Spend
OpPreflight == runPreflight /\ Spend

NextOps ==
    \/ GpsLock
    \/ DispatchNext
    \/ SelectNext
    \/ StartArm
    \/ StartAuto
    \/ OpArm
    \/ OpDisarm
    \/ OpSetMode
    \/ OpManual
    \/ OpKey
    \/ OpDrag
    \/ OpPreflight
    \/ Timers
    \/ Ticks

SpecOps == Init /\ [][NextOps]_vars

\* The same with a clock that advances between any two ticks
ClockTicks == \E step \in Steps \ {0} : Tick(step)

NextOpsClock ==
    \/ GpsLock
    \/ DispatchNext
    \/ SelectNext
    \/ StartArm
    \/ StartAuto
    \/ OpArm
    \/ OpDisarm
    \/ OpSetMode
    \/ OpManual
    \/ OpKey
    \/ OpDrag
    \/ OpPreflight
    \/ Timers
    \/ ClockTicks

SpecOpsClock == Init /\ [][NextOpsClock]_vars

\* The coordinator under any caller: a fleet as earlier dispatches leave it
\* (each vehicle idle or dispatched), then up to MaxOps further operations
\* with any arguments, and dispatch requests.  Every vehicle stays disarmed on
\* the ground here, so the tick loop has nothing to do with the fleet table.
FleetStatuses == {"idle", "dispatched"}

FleetDrone(status) ==
    IF status = "idle"
    THEN createInitialDrones[1]
    ELSE [status |-> status, assignedTaskId |-> 1,
          assignedRoute |-> generateRouteForTask(hubLocation, RequestLocation(1)),
          hasRoute |-> TRUE]

InitFleet ==
    /\ drones \in {[d \in Drones |-> FleetDrone(st[d])] : st \in [Drones -> FleetStatuses]}
    /\ physics = [d \in Drones |-> InitialPhysics]
    /\ selectedDroneId = None
    /\ activeControls = {}
    /\ gpsFix = "NO_FIX"
    /\ preflightChecks = {}
    /\ timers = {}
    /\ requests = [r \in Requests |-> "pending"]
    /\ completedCalls = [r \in Requests |-> 0]
    /\ lastEvent = [op |-> "init", events |-> {}]
    /\ opsLeft = MaxOps
    /\ ghost = [d \in Drones |-> InitialGhost]

ApiAssign == \E d \in Drones, id \in Requests, route \in ApiRoutes :
                 AssignTaskToDrone(d, id, route) /\ Spend
ApiStatus == \E d \in Drones, status \in DroneStatus : UpdateDroneStatus(d, status) /\ Spend
ApiRoute == \E d \in Drones, route \in ApiRoutes : UpdateDroneRoute(d, route) /\ Spend
ApiComplete == \E d \in Drones : CompleteDroneTask(d) /\ Spend

NextFleet ==
    \/ ApiAssign
    \/ ApiStatus
    \/ ApiRoute
    \/ ApiComplete
    \/ Dispatch

SpecFleet == InitFleet /\ [][NextFleet]_vars

\* Manual flying on the way back: the nominal mission, and from the end of
\* the delivery wait on the operator presses and releases joystick axes and
\* keys of ReturnAxes at any moment, and makes no mode request.
ReturnAxes == {"up"}

Delivered(d) == physics[d].deliveryWaitTime >= DELIVERY_WAIT \/ physics[d].isReturningHome

Joystick ==
    \E a \in ReturnAxes, active \in BOOLEAN :
        /\ selectedDroneId # None
        /\ Delivered(selectedDroneId) \/ ~active
        /\ (a \in activeControls) # active
        /\ handleManualControl(a, active)
        /\ UNCHANGED opsLeft

Keyboard ==
    \E a \in ReturnAxes, active \in BOOLEAN :
        /\ selectedDroneId # None
        /\ Delivered(selectedDroneId) \/ ~active
        /\ (a \in activeControls) # active
        /\ handleKey(a, active)
        /\ UNCHANGED opsLeft

NextManual ==
    \/ GpsLock
    \/ DispatchNext
    \/ StartSelect
    \/ StartArm
    \/ StartAuto
    \/ Joystick
    \/ Keyboard
    \/ Timers
    \/ Ticks

SpecManual == Init /\ [][NextManual]_vars

\* Two vehicles in the air together: the request is dispatched to the first
\* available vehicle with the canonical route, a second dispatcher assigns a
\* route of ApiRoutes to the vehicle that is available then, at any moment
\* before, during or after the first mission, and the operator starts each
\* mission.  The clock advances between any two ticks.
SecondDispatch ==
    \E route \in ApiRoutes :
        /\ getAvailableDrone(drones) # None
        /\ AssignTaskToDrone(getAvailableDrone(drones), 1, route)
        /\ Spend

NextPair ==
    \/ GpsLock
    \/ Dispatch
    \/ SecondDispatch
    \/ StartSelect
    \/ StartArm
    \/ StartAuto
    \/ Timers
    \/ ClockTicks

SpecPair == Init /\ [][NextPair]_vars

\* The fleet at rest: the operator selects the vehicle next in line, arms and
\* disarms it, changes its mode, and holds and releases axes of IdleAxes on the
\* joystick and the keyboard, while it is idle; a request may be dispatched to
\* it at any moment.
IdleAxes == {"up", "forward"}

IdleSelected == IF selectedDroneId = None THEN FALSE
                ELSE drones[selectedDroneId].status = "idle"

IdleArm ==
    /\ IdleSelected
    /\ ~physics[selectedDroneId].armed
    /\ gpsFix # "NO_FIX"
    /\ <<"arm", selectedDroneId>> \notin timers
    /\ armSystem
    /\ UNCHANGED opsLeft

IdleDisarm ==
    /\ IdleSelected
    /\ physics[selectedDroneId].armed
    /\ disarmSystem
    /\ UNCHANGED opsLeft

IdleSetMode ==
    \E mode \in UiModes :
        /\ IdleSelected
        /\ physics[selectedDroneId].flightMode # mode
        /\ setMode(mode)
        /\ UNCHANGED opsLeft

IdleJoystick ==
    \E a \in IdleAxes, active \in BOOLEAN :
        /\ (a \in activeControls) # active
        /\ handleManualControl(a, active)
        /\ UNCHANGED opsLeft

IdleKeyboard ==
    \E a \in IdleAxes, active \in BOOLEAN :
        /\ (a \in activeControls) # active
        /\ handleKey(a, active)
        /\ UNCHANGED opsLeft

NextIdle ==
    \/ GpsLock
    \/ DispatchNext
    \/ SelectNext
    \/ IdleArm
    \/ IdleDisarm
    \/ IdleSetMode
    \/ IdleJoystick
    \/ IdleKeyboard
    \/ Timers
    \/ Ticks

SpecIdle == Init /\ [][NextIdle]_vars

\* A manual take-off: the operator has armed the dispatched vehicle, set
\* LOITER (which holds the position) and may have climbed with the 'up' axis
\* to the cruise altitude above the pad; the tick's dt is any value up to
\* 0.1 s, so the climb passes through every altitude.  They go on climbing or
\* not, then engage AUTO, and the tick loop flies the mission.
HoverAlts == {0, DEFAULT_ALT}

InitHover ==
    /\ drones = assignTaskToDrone(createInitialDrones, 1, 1,
                                  generateRouteForTask(hubLocation, RequestLocation(1)))
    /\ physics \in {[d \in Drones |->
                       IF d = 1
                       THEN [InitialPhysics EXCEPT !.armed = TRUE, !.flightMode = "LOITER",
                                                   !.alt = a]
                       ELSE InitialPhysics] : a \in HoverAlts}
    /\ selectedDroneId = 1
    /\ activeControls = {}
    /\ gpsFix = "3D_FIX"
    /\ preflightChecks = {PreflightSteps[i] : i \in 1..Len(PreflightSteps)}
    /\ timers = {}
    /\ requests = [r \in Requests |-> IF r = 1 THEN "dispatched" ELSE "pending"]
    /\ completedCalls = [r \in Requests |-> 0]
    /\ lastEvent = Event("setMode", 1, "LOITER")
    /\ opsLeft = MaxOps
    /\ ghost = [d \in Drones |-> IF d = 1 THEN [InitialGhost EXCEPT !.armReq = TRUE]
                                 ELSE InitialGhost]

HoverClimb ==
    \E active \in BOOLEAN :
        /\ physics[selectedDroneId].flightMode = "LOITER" \/ ~active
        /\ ("up" \in activeControls) # active
        /\ handleKey("up", active)
        /\ UNCHANGED opsLeft

HoverAuto ==
    /\ physics[selectedDroneId].flightMode = "LOITER"
    /\ setMode("AUTO")
    /\ UNCHANGED opsLeft

NextHover ==
    \/ HoverClimb
    \/ HoverAuto
    \/ Ticks

SpecHover == InitHover /\ [][NextHover]_vars

\* A route replaced in flight: the nominal mission, and up to MaxOps calls of
\* updateDroneRoute that give a vehicle on a mission one of the routes of
\* ApiRoutes, at any moment.
Reroute ==
    \E d \in Drones, route \in ApiRoutes :
        /\ drones[d].hasRoute
        /\ UpdateDroneRoute(d, route)
        /\ Spend

NextReroute ==
    \/ GpsLock
    \/ DispatchNext
    \/ StartSelect
    \/ StartArm
    \/ StartAuto
    \/ Reroute
    \/ Timers
    \/ Ticks

SpecReroute == Init /\ [][NextReroute]_vars

\* Requests for AUTO: the operator selects a vehicle, arms it when there is a
\* fix, and asks for AUTO at any moment, whether or not the vehicle has a
\* mission; up to MaxOps calls of updateDroneRoute leave a vehicle on a
\* mission with a route of no waypoints.
EmptiedRoute ==
    \E d \in Drones :
        /\ drones[d].hasRoute
        /\ Len(drones[d].assignedRoute) > 0
        /\ UpdateDroneRoute(d, <<>>)
        /\ Spend

AutoArm ==
    /\ selectedDroneId # None
    /\ ~physics[selectedDroneId].armed
    /\ gpsFix # "NO_FIX"
    /\ <<"arm", selectedDroneId>> \notin timers
    /\ armSystem
    /\ UNCHANGED opsLeft

AutoRequest ==
    /\ selectedDroneId # None
    /\ setMode("AUTO")
    /\ UNCHANGED opsLeft

NextAuto ==
    \/ GpsLock
    \/ DispatchNext
    \/ SelectNext
    \/ AutoArm
    \/ AutoRequest
    \/ EmptiedRoute
    \/ Timers
    \/ Ticks

SpecAuto == Init /\ [][NextAuto]_vars

\* The battery level: one vehicle, dispatched and armed on the pad at the hub,
\* whose battery is full or, after hours spent armed, nearly empty.  The
\* operator switches it between STABILIZE (disarm, arm) and LOITER while the
\* loop ticks.  The level is followed over LowBattery + MaxDeficit below its
\* initial value: from full, and from LowBattery down to MaxDeficit below empty.
BatteryLevels == {FULL_BATTERY, LowBattery}

BatteryFollowed(level) ==
    \/ level >= FULL_BATTERY - (LowBattery + MaxDeficit)
    \/ level <= LowBattery /\ level >= -MaxDeficit

Metered(p, level) == p @@ ("battery_rem" :> level)

InitBattery ==
    /\ drones = assignTaskToDrone(createInitialDrones, 1, 1,
                                  generateRouteForTask(hubLocation, RequestLocation(1)))
    /\ \E level \in BatteryLevels :
          physics = [d \in Drones |->
                       IF d = 1 THEN Metered([InitialPhysics EXCEPT !.armed = TRUE], level)
                       ELSE Metered(InitialPhysics, FULL_BATTERY)]
    /\ selectedDroneId = 1
    /\ activeControls = {}
    /\ gpsFix = "3D_FIX"
    /\ preflightChecks = {PreflightSteps[i] : i \in 1..Len(PreflightSteps)}
    /\ timers = {}
    /\ requests = [r \in Requests |-> IF r = 1 THEN "dispatched" ELSE "pending"]
    /\ completedCalls = [r \in Requests |-> 0]
    /\ lastEvent = Event("armSystem", 1, "MOTORS ARMED")
    /\ opsLeft = MaxOps
    /\ ghost = [d \in Drones |-> IF d = 1 THEN [InitialGhost EXCEPT !.armReq = TRUE]
                                 ELSE InitialGhost]

BatteryTicks ==
    \E step \in Steps :
        /\ Tick(step)
        /\ \A d \in Drones : BatteryFollowed(physics'[d].battery_rem)

BatteryLoiter ==
    /\ physics[selectedDroneId].armed
    /\ physics[selectedDroneId].flightMode # "LOITER"
    /\ setMode("LOITER")
    /\ UNCHANGED opsLeft

BatteryDisarm ==
    /\ physics[selectedDroneId].armed
    /\ disarmSystem
    /\ UNCHANGED opsLeft

BatteryArm ==
    /\ ~physics[selectedDroneId].armed
    /\ armSystem
    /\ UNCHANGED opsLeft

NextBattery ==
    \/ BatteryTicks
    \/ BatteryLoiter
    \/ BatteryDisarm
    \/ BatteryArm

SpecBattery == InitBattery /\ [][NextBattery]_vars

\* Two vehicles and the manual axes: two vehicles have been dispatched, the
\* first on a generated route and the second on the two-step route handed to
\* the coordinator API.  The operator selects, arms and starts them and, up to
\* MaxOps times, presses the climb axis on the joystick or the keyboard,
\* before any vehicle is selected or once both are armed.
PairRoute == << MissionItem(1, "NAV_TAKEOFF", 0, 0, 4),
                MissionItem(2, "NAV_LAND", DestNorth, 0, 0) >>

InitPairManual ==
    /\ drones = assignTaskToDrone(
                    assignTaskToDrone(createInitialDrones, 1, 1,
                                      generateRouteForTask(hubLocation, RequestLocation(1))),
                    2, 1, PairRoute)
    /\ physics = [d \in Drones |-> InitialPhysics]
    /\ selectedDroneId = None
    /\ activeControls = {}
    /\ gpsFix = "NO_FIX"
    /\ preflightChecks = {}
    /\ timers = {}
    /\ requests = [r \in Requests |-> IF r = 1 THEN "dispatched" ELSE "pending"]
    /\ completedCalls = [r \in Requests |-> 0]
    /\ lastEvent = Event("assignTaskToDrone", 2, "dispatched")
    /\ opsLeft = MaxOps
    /\ ghost = [d \in Drones |-> InitialGhost]

TwoArmed == \E d, e \in Drones : d # e /\ physics[d].armed /\ physics[e].armed

PairJoystick ==
    /\ "up" \notin activeControls
    /\ TwoArmed \/ selectedDroneId = None
    /\ handleManualControl("up", TRUE)
    /\ Spend

PairKeyboard ==
    /\ "up" \notin activeControls
    /\ TwoArmed \/ selectedDroneId = None
    /\ handleKey("up", TRUE)
    /\ Spend

NextPairManual ==
    \/ GpsLock
    \/ StartSelect
    \/ StartArm
    \/ StartAuto
    \/ PairJoystick
    \/ PairKeyboard
    \/ Timers
    \/ ClockTicks

SpecPairManual == InitPairManual /\ [][NextPairManual]_vars

\* Command scope: two vehicles have been dispatched.  The operator moves the
\* selection between the two at will, arms and disarms the
\* selected vehicle and sets it to LOITER as often as they like, and, up to
\* MaxOps times, starts the selected vehicle's mission.
ScopeDrones == 1..2
ScopeModes == {"LOITER"}

ScopeSelect ==
    \E d \in ScopeDrones :
        /\ ~Selected(d)
        /\ SelectDrone(d)
        /\ UNCHANGED opsLeft

ScopeArm ==
    /\ IF selectedDroneId = None THEN lastEvent.op # "armSystem"
       ELSE /\ ~physics[selectedDroneId].armed
            /\ <<"arm", selectedDroneId>> \notin timers
    /\ armSystem
    /\ UNCHANGED opsLeft

ScopeDisarm ==
    /\ IF selectedDroneId = None THEN lastEvent.op # "disarmSystem"
       ELSE physics[selectedDroneId].armed
    /\ disarmSystem
    /\ UNCHANGED opsLeft

ScopeSetMode ==
    \E mode \in ScopeModes :
        /\ IF selectedDroneId = None THEN lastEvent.op # "setMode"
           ELSE physics[selectedDroneId].armed /\ physics[selectedDroneId].flightMode # mode
        /\ setMode(mode)
        /\ UNCHANGED opsLeft

ScopeAuto ==
    /\ selectedDroneId # None
    /\ setMode("AUTO")
    /\ Spend

NextScope ==
    \/ GpsLock
    \/ ScopeSelect
    \/ ScopeArm
    \/ ScopeDisarm
    \/ ScopeSetMode
    \/ ScopeAuto
    \/ Timers
    \/ ClockTicks

SpecScope == InitPairManual /\ [][NextScope]_vars

\* Leaving AUTO and coming back: the vehicle of SpecHover is given AUTO; up
\* to MaxOps times the operator takes it out of AUTO in flight, with the
\* LOITER button or by pressing the climb key (let go at any moment), and
\* gives it AUTO again from LOITER or GUIDED.
ResumeLoiter ==
    /\ physics[selectedDroneId].flightMode = "AUTO"
    /\ setMode("LOITER")
    /\ Spend

ResumeKey ==
    \/ /\ physics[selectedDroneId].flightMode = "AUTO"
       /\ "up" \notin activeControls
       /\ handleKey("up", TRUE)
       /\ Spend
    \/ /\ "up" \in activeControls
       /\ handleKey("up", FALSE)
       /\ UNCHANGED opsLeft

ResumeAuto ==
    /\ physics[selectedDroneId].flightMode \in {"LOITER", "GUIDED"}
    /\ activeControls = {}
    /\ setMode("AUTO")
    /\ UNCHANGED opsLeft

NextResume ==
    \/ ResumeLoiter
    \/ ResumeKey
    \/ ResumeAuto
    \/ ClockTicks

SpecResume == InitHover /\ [][NextResume]_vars

\* Stalls: the nominal mission on a loop that stalls before every tick (a
\* background tab, a long frame), so that every tick comes more than 0.1 s
\* after the previous one; the vehicles that wait idle without a route are
\* passed over and their lastTick grows older still.
StallSteps == {step \in Steps : step > DT_CLAMP}

StallTicks == \E step \in StallSteps : Tick(step)

NextStall ==
    \/ GpsLock
    \/ DispatchNext
    \/ StartSelect
    \/ StartArm
    \/ StartAuto
    \/ Timers
    \/ StallTicks

SpecStall == Init /\ [][NextStall]_vars

\* Telemetry: one vehicle, dispatched and armed on the pad, whose physics
\* record carries the battery level and the speed indicator and whose fleet
\* record carries the telemetry the coordinator holds.  The operator holds and
\* releases the axes of IdleAxes on the keyboard and asks for GUIDED or LOITER
\* while the loop ticks and the clock advances; the battery level is followed
\* over the window of SpecBattery.
InitialTelemetry ==
    [latitude |-> CENTRAL_HOSPITAL_LOCATION.lat, longitude |-> CENTRAL_HOSPITAL_LOCATION.lng,
     altitude |-> 0, speed |-> 0, verticalSpeed |-> 0, battery |-> FULL_BATTERY,
     bearing |-> 0, status |-> "IDLE"]

Telemetered(ds) == [d \in Drones |-> ds[d] @@ ("telemetry" :> InitialTelemetry)]

Instrumented(p) == Metered(p, FULL_BATTERY) @@ ("speed" :> 0)

TelemetryModes == {"GUIDED", "LOITER"}

InitTelemetry ==
    /\ drones = assignTaskToDrone(Telemetered(createInitialDrones), 1, 1,
                                  generateRouteForTask(hubLocation, RequestLocation(1)))
    /\ physics = [d \in Drones |->
                    IF d = 1 THEN Instrumented([InitialPhysics EXCEPT !.armed = TRUE])
                    ELSE Instrumented(InitialPhysics)]
    /\ selectedDroneId = 1
    /\ activeControls = {}
    /\ gpsFix = "3D_FIX"
    /\ preflightChecks = {PreflightSteps[i] : i \in 1..Len(PreflightSteps)}
    /\ timers = {}
    /\ requests = [r \in Requests |-> IF r = 1 THEN "dispatched" ELSE "pending"]
    /\ completedCalls = [r \in Requests |-> 0]
    /\ lastEvent = Event("armSystem", 1, "MOTORS ARMED")
    /\ opsLeft = MaxOps
    /\ ghost = [d \in Drones |-> IF d = 1 THEN [InitialGhost EXCEPT !.armReq = TRUE]
                                 ELSE InitialGhost]

TelemetryKey ==
    \E a \in IdleAxes, active \in BOOLEAN :
        /\ (a \in activeControls) # active
        /\ handleKey(a, active)
        /\ UNCHANGED opsLeft

TelemetryMode ==
    \E mode \in TelemetryModes :
        /\ physics[selectedDroneId].flightMode # mode
        /\ setMode(mode)
        /\ UNCHANGED opsLeft

TelemetryTicks ==
    \E step \in Steps \ {0} :
        /\ Tick(step)
        /\ \A d \in Drones : BatteryFollowed(physics'[d].battery_rem)

NextTelemetry ==
    \/ TelemetryTicks
    \/ TelemetryKey
    \/ TelemetryMode

SpecTelemetry == InitTelemetry /\ [][NextTelemetry]_vars

\* A recall: the nominal mission, and up to MaxOps times the operator presses
\* RTL for the selected, armed vehicle, at any moment.  No LAND request is
\* made, so a vehicle is in LAND only because the RTL branch of the tick has
\* found it within the home radius, at the end of a flight home.
Recall ==
    /\ selectedDroneId # None
    /\ physics[selectedDroneId].armed
    /\ physics[selectedDroneId].flightMode # "RTL"
    /\ setMode("RTL")
    /\ Spend

NextRecall ==
    \/ GpsLock
    \/ DispatchNext
    \/ StartSelect
    \/ StartArm
    \/ StartAuto
    \/ Recall
    \/ Timers
    \/ Ticks

SpecRecall == Init /\ [][NextRecall]_vars

\* The power button: the operator selects the vehicle next in line, before or
\* after its dispatch, and presses the button that arms the selected vehicle
\* when it is disarmed (POWER ON) and disarms it when it is armed (FORCE
\* STOP), as often as they like and at any moment, also while the preflight
\* auto-sequence of an earlier press is still running.
PowerOn ==
    /\ selectedDroneId # None
    /\ ~physics[selectedDroneId].armed
    /\ gpsFix # "NO_FIX"
    /\ armSystem
    /\ UNCHANGED opsLeft

ForceStop ==
    /\ selectedDroneId # None
    /\ physics[selectedDroneId].armed
    /\ disarmSystem
    /\ UNCHANGED opsLeft

NextPower ==
    \/ GpsLock
    \/ DispatchNext
    \/ SelectNext
    \/ PowerOn
    \/ ForceStop
    \/ Timers
    \/ Ticks

SpecPower == Init /\ [][NextPower]_vars

\* A repeated dispatch: the DISPATCH button of a request stays on the screen
\* until the request's change of status has come back from the backing store;
\* up to MaxOps times the dispatcher presses it again right after a dispatch,
\* before that.  The missions are then started as in the nominal mission.
Redispatch ==
    \E id \in Requests, d \in Drones :
        /\ requests[id] = "dispatched"
        /\ lastEvent = Event("handleDispatch", d, "dispatched")
        /\ drones[d].assignedTaskId = id
        /\ handleDispatch(id)
        /\ UNCHANGED <<physics, selectedDroneId, activeControls, gpsFix, preflightChecks,
                       timers, completedCalls>>
        /\ Spend

NextRedispatch ==
    \/ GpsLock
    \/ Dispatch
    \/ Redispatch
    \/ StartSelect
    \/ StartArm
    \/ StartAuto
    \/ Timers
    \/ ClockTicks

SpecRedispatch == Init /\ [][NextRedispatch]_vars

\* Changing views: the nominal mission, and up to MaxOps times the operator
\* leaves the mission view and comes back to it, at any moment.
ViewChange == Remount /\ Spend

NextRemount ==
    \/ GpsLock
    \/ DispatchNext
    \/ StartSelect
    \/ StartArm
    \/ StartAuto
    \/ ViewChange
    \/ Timers
    \/ Ticks

SpecRemount == Init /\ [][NextRemount]_vars

\* ------------------------------------------------------------------ claims
TickStep == lastEvent'.op = "tick"
Released(d) == drones[d].status = "idle" /\ ghost[d].wasReturning

\* C1: in an uninterrupted mission (dispatch, arm, AUTO, then ticks only), for
\* any non-decreasing tick timestamps, the completion callback is invoked
\* exactly once between dispatch and release: never twice, and once by the
\* time the vehicle is idle again.
C1_CallbackExactlyOnce ==
    \A d \in Drones : /\ ghost[d].calls <= 1
                      /\ Released(d) => ghost[d].calls = 1

\* C1: a mission in which the callback was invoked twice
C1_CalledTwice == \E d \in Drones : ghost[d].calls = 2 /\ drones[d].status = "running"

\* C2: whatever operator commands interleave with the ticks, a task is marked
\* completed at most once for one assignment (the clock advances between ticks).
C2_CompletedOnce == \A r \in Requests : completedCalls[r] <= 1

\* C2: a task marked completed for the second time after an operator command
C2_MarkedAgain ==
    \E d \in Drones : /\ drones[d].assignedTaskId # None
                      /\ completedCalls[drones[d].assignedTaskId] = 2
                      /\ opsLeft < MaxOps

C4_TerminalReset ==
    [][\A d \in Drones :
         (/\ TickStep
          /\ physics[d].flightMode = "LAND"
          /\ physics[d].isReturningHome
          /\ 2 * physics[d].alt < 1)
         => (/\ ~physics'[d].armed
             /\ physics'[d].flightMode = "STABILIZE"
             /\ ~physics'[d].isReturningHome
             /\ physics'[d].deliveryWaitTime = 0
             /\ physics'[d].activeWpIndex = -1
             /\ drones'[d].status = "idle"
             /\ ~drones'[d].hasRoute
             /\ drones'[d].assignedTaskId = None)]_vars

\* C4: the tick has released a vehicle that had a task
C4_Reset ==
    \E d \in Drones : /\ <<d, "RELEASED">> \in lastEvent.events
                      /\ drones[d].status = "idle"
                      /\ drones[d].assignedTaskId = None
                      /\ physics[d].activeWpIndex = -1

\* C5: the callback comes strictly before isReturningHome becomes true (and
\* then the mode is RTL), and that strictly before the status returns to idle;
\* the status never returns to idle in a mission that never returned home.
C5_EventOrder ==
    [][\A d \in Drones :
         /\ (~physics[d].isReturningHome /\ physics'[d].isReturningHome)
               => (ghost[d].calls >= 1 /\ physics'[d].flightMode = "RTL")
         /\ (drones[d].status # "idle" /\ drones'[d].status = "idle")
               => (ghost[d].wasReturning /\ ghost[d].calls >= 1)]_vars

\* C5: a vehicle on its way home after the callback
C5_Returning ==
    \E d \in Drones : /\ physics[d].isReturningHome
                      /\ physics[d].flightMode = "RTL"
                      /\ ghost[d].calls >= 1
                      /\ drones[d].status = "running"

\* C6: every idle vehicle has no route and no task, after any coordinator
\* operations and ticks.
C6_IdleHasNothing ==
    \A d \in Drones : drones[d].status = "idle"
                         => (~drones[d].hasRoute /\ drones[d].assignedTaskId = None)

\* C6: an idle vehicle that holds a route
C6_IdleWithRoute == \E d \in Drones : drones[d].status = "idle" /\ drones[d].hasRoute

\* C7: assignTaskToDrone on a vehicle that is not idle leaves its status, task
\* and route unchanged; on an idle vehicle it sets dispatched, task and route.
C7_AssignOnlyIdle ==
    [][\A d \in Drones :
         (lastEvent'.op = "assignTaskToDrone" /\ <<d, drones[d].status>> \in lastEvent'.events)
         => IF drones[d].status # "idle"
            THEN drones'[d] = drones[d]
            ELSE /\ drones'[d].status = "dispatched"
                 /\ drones'[d].hasRoute
                 /\ drones'[d].assignedTaskId # None]_vars

\* C7: assignTaskToDrone has overwritten the assignment of a dispatched vehicle
C7_Overwritten ==
    \E d \in Drones : /\ lastEvent = Event("assignTaskToDrone", d, "dispatched")
                      /\ drones[d].status = "dispatched"

C9_FirstIdle ==
    LET r == getAvailableDrone(drones)
    IN  /\ r = None <=> \A d \in Drones : drones[d].status # "idle"
        /\ r # None => (/\ r \in Drones
                        /\ drones[r].status = "idle"
                        /\ \A e \in Drones : e < r => drones[e].status # "idle")

\* C9: a dispatch went to the third vehicle because the first two were busy
C9_ThirdChosen ==
    /\ lastEvent = Event("handleDispatch", 3, "dispatched")
    /\ drones[1].status # "idle"
    /\ drones[2].status # "idle"
    /\ drones[4].status = "idle"

\* C10: with no idle vehicle, handleDispatch assigns nothing, changes no
\* vehicle, and leaves the request pending.
C10_NoDroneNoChange ==
    [][((\A d \in Drones : drones[d].status # "idle") /\ lastEvent'.op = "handleDispatch")
         => (drones' = drones /\ requests' = requests)]_vars

\* C10: a dispatch was refused for lack of vehicles
C10_Refused ==
    /\ lastEvent = Event("handleDispatch", None, "No drones available!")
    /\ \A d \in Drones : drones[d].status # "idle"
    /\ \E r \in Requests : requests[r] = "pending"

\* C11: a tick that finds the selected, armed vehicle in AUTO or RTL while a
\* manual axis is active leaves it in GUIDED with isReturningHome false.
C11_ManualPrecedence ==
    [][\A d \in Drones :
         (/\ TickStep
          /\ d = selectedDroneId
          /\ physics[d].armed
          /\ activeControls # {}
          /\ physics[d].flightMode \in {"AUTO", "RTL"})
         => (physics'[d].flightMode = "GUIDED" /\ ~physics'[d].isReturningHome)]_vars

\* C11: with an axis held, a tick has taken the selected vehicle from RTL to
\* LAND above its home, still returning home
C11_LandingUnderManual ==
    \E d \in Drones : /\ lastEvent.op = "tick"
                      /\ d = selectedDroneId
                      /\ activeControls # {}
                      /\ physics[d].armed
                      /\ physics[d].flightMode = "LAND"
                      /\ physics[d].isReturningHome
                      /\ physics[d].alt >= RTL_ALT

\* C12: once a manual override has taken a vehicle out of its automated RTL
\* into GUIDED, the vehicle is not in RTL and isReturningHome is false for as
\* long as no operator mode request is made, whether the axis is held or released.
C12_NoSilentResume ==
    \A d \in Drones : ghost[d].overrodeRtl
                         => (physics[d].flightMode # "RTL" /\ ~physics[d].isReturningHome)

\* C12: after the override of an automated RTL the axes have been released and
\* a tick has run
C12_ReleasedAfterOverride ==
    \E d \in Drones : /\ ghost[d].overrodeRtl
                      /\ activeControls = {}
                      /\ lastEvent.op = "tick"
                      /\ physics[d].armed
                      /\ physics[d].flightMode = "GUIDED"

C14_IdleUntouched ==
    [][\A d \in Drones :
         (TickStep /\ drones[d].status = "idle" /\ ~drones[d].hasRoute)
         => (/\ physics'[d].lat = physics[d].lat
             /\ physics'[d].lng = physics[d].lng
             /\ physics'[d].alt = physics[d].alt
             /\ physics'[d].drainRate = 0)]_vars

\* C14: a tick has passed over an idle vehicle that is armed, in GUIDED and
\* selected, with an axis held
C14_IdleArmedGuided ==
    \E d \in Drones : /\ lastEvent.op = "tick"
                      /\ drones[d].status = "idle"
                      /\ ~drones[d].hasRoute
                      /\ d = selectedDroneId
                      /\ physics[d].armed
                      /\ physics[d].flightMode = "GUIDED"
                      /\ "forward" \in activeControls
                      /\ physics[d].lat = 0 /\ physics[d].alt = 0

\* C15 (as stated): activeWpIndex changes only in ticks; a tick either leaves
\* it, raises it by one, or, in the tick that completes the mission and in no
\* other, resets it to -1.
C15_IndexMonotone ==
    [][\A d \in Drones :
         /\ physics'[d].activeWpIndex # physics[d].activeWpIndex
               => /\ TickStep
                  /\ \/ physics'[d].activeWpIndex = physics[d].activeWpIndex + 1
                     \/ /\ physics'[d].activeWpIndex = -1
                        /\ <<d, "RELEASED">> \in lastEvent'.events
         /\ (TickStep /\ <<d, "RELEASED">> \in lastEvent'.events)
               => physics'[d].activeWpIndex = -1]_vars

\* C15: the index has gone through the whole route and has been reset by the
\* completing tick
C15_IndexReset ==
    \E d \in Drones : /\ <<d, "RELEASED">> \in lastEvent.events
                      /\ physics[d].activeWpIndex = -1
                      /\ ghost[d].wasReturning
                      /\ ghost[d].calls >= 1
                      /\ ~physics[d].armed

\* C15 (amended): as above, except that the tick that starts the mission takes
\* the index from -1 to 0 and, when the vehicle is already at the first
\* waypoint, once more to 1.
C15_IndexMonotoneFromStart ==
    [][\A d \in Drones :
         /\ physics'[d].activeWpIndex # physics[d].activeWpIndex
               => /\ TickStep
                  /\ \/ physics'[d].activeWpIndex = physics[d].activeWpIndex + 1
                     \/ /\ physics[d].activeWpIndex = -1
                        /\ physics'[d].activeWpIndex = 1
                        /\ <<d, "MISSION STARTED">> \in lastEvent'.events
                     \/ /\ physics'[d].activeWpIndex = -1
                        /\ <<d, "RELEASED">> \in lastEvent'.events
         /\ (TickStep /\ <<d, "RELEASED">> \in lastEvent'.events)
               => physics'[d].activeWpIndex = -1]_vars

\* C15: the starting tick has left the index at 1
C15_StartedAtOne ==
    \E d \in Drones : /\ <<d, "MISSION STARTED">> \in lastEvent.events
                      /\ physics[d].activeWpIndex = 1
                      /\ physics[d].flightMode = "AUTO"
                      /\ drones[d].status = "running"

\* C16: after every step each vehicle's activeWpIndex is -1 or an index into
\* its current route (0 <= index < length); it is -1 right after
\* updateDroneRoute has replaced the route and right after the mission completes.
C16_IndexInRoute ==
    [][\A d \in Drones :
         /\ \/ physics'[d].activeWpIndex = -1
            \/ /\ 0 <= physics'[d].activeWpIndex
               /\ physics'[d].activeWpIndex < Len(drones'[d].assignedRoute)
         /\ (lastEvent' \in {Event("dragend", d, "route updated"),
                             Event("updateDroneRoute", d, "route updated")})
               => physics'[d].activeWpIndex = -1
         /\ (TickStep /\ <<d, "RELEASED">> \in lastEvent'.events)
               => physics'[d].activeWpIndex = -1]_vars

\* C16: the route of a vehicle in flight has been replaced and its index is
\* still where it was
C16_ReplacedInFlight ==
    \E d \in Drones : /\ lastEvent = Event("dragend", d, "route updated")
                      /\ physics[d].activeWpIndex >= 0
                      /\ physics[d].flightMode = "AUTO"
                      /\ physics[d].armed

\* C17: the tick that finds an armed vehicle in AUTO with activeWpIndex beyond
\* the end of its (replaced, shorter) route brings the index back into the
\* route's range, or treats the mission as complete: it resets the index,
\* turns for home, leaves AUTO or releases the vehicle.
C17_ClampOrComplete ==
    [][\A d \in Drones :
         (/\ TickStep
          /\ physics[d].armed
          /\ physics[d].flightMode = "AUTO"
          /\ drones[d].hasRoute
          /\ Len(drones[d].assignedRoute) > 0
          /\ physics[d].activeWpIndex >= Len(drones[d].assignedRoute))
         => \/ physics'[d].activeWpIndex < Len(drones'[d].assignedRoute)
            \/ physics'[d].isReturningHome
            \/ physics'[d].flightMode # "AUTO"
            \/ drones'[d].status = "idle"]_vars

\* C17: a tick has passed and the vehicle is still in AUTO with its index
\* beyond the end of the route
C17_StillOutOfRange ==
    \E d \in Drones : /\ lastEvent.op = "tick"
                      /\ physics[d].armed
                      /\ physics[d].flightMode = "AUTO"
                      /\ drones[d].hasRoute
                      /\ Len(drones[d].assignedRoute) > 0
                      /\ physics[d].activeWpIndex >= Len(drones[d].assignedRoute)
                      /\ drones[d].status = "running"

\* C18: an arm request for the selected vehicle made while the GPS fix is
\* NO_FIX reports "ARM FAIL: NO GPS FIX", leaves the vehicle disarmed, changes
\* no physics record and no fleet record, and schedules no timer (neither a
\* preflight check nor the delayed arming).
C18_ArmNeedsFix ==
    [][\A d \in Drones :
         (/\ lastEvent'.op = "armSystem"
          /\ selectedDroneId = d
          /\ gpsFix = "NO_FIX")
         => /\ lastEvent' = Event("armSystem", d, "ARM FAIL: NO GPS FIX")
            /\ ~physics'[d].armed
            /\ physics' = physics
            /\ drones' = drones
            /\ timers' = timers
            /\ <<"arm", d>> \notin timers'
            /\ UNCHANGED <<selectedDroneId, activeControls, gpsFix, preflightChecks,
                           requests, completedCalls>>]_vars

\* C18: an arm request for a dispatched vehicle has just been refused for
\* want of a GPS fix
C18_RefusedNoFix ==
    \E d \in Drones : /\ lastEvent = Event("armSystem", d, "ARM FAIL: NO GPS FIX")
                      /\ gpsFix = "NO_FIX"
                      /\ selectedDroneId = d
                      /\ drones[d].hasRoute
                      /\ ~physics[d].armed

\* C19: a disarm request for the selected vehicle above DISARM_MAX_ALT (2 m)
\* reports "DISARM REJECTED: VEHICLE AIRBORNE" and changes nothing else; at or
\* below 2 m it leaves the vehicle disarmed in STABILIZE.
C19_DisarmGate ==
    [][\A d \in Drones :
         (/\ lastEvent'.op = "disarmSystem"
          /\ selectedDroneId = d)
         => IF physics[d].alt > 2
            THEN /\ lastEvent' = Event("disarmSystem", d, "DISARM REJECTED: VEHICLE AIRBORNE")
                 /\ physics' = physics
                 /\ UNCHANGED <<drones, selectedDroneId, activeControls, gpsFix,
                                preflightChecks, timers, requests, completedCalls>>
            ELSE /\ ~physics'[d].armed
                 /\ physics'[d].flightMode = "STABILIZE"]_vars

\* C19: a disarm request has just been refused for an armed vehicle in flight
C19_RefusedAirborne ==
    \E d \in Drones : /\ lastEvent = Event("disarmSystem", d, "DISARM REJECTED: VEHICLE AIRBORNE")
                      /\ selectedDroneId = d
                      /\ physics[d].armed
                      /\ physics[d].alt > 2
                      /\ physics[d].flightMode = "AUTO"

\* C20: a setMode step for a selected vehicle that has no assigned route, an
\* empty route, or is disarmed never sets AUTO; the request for AUTO is
\* answered with "AUTO FAIL: NO MISSION" or "AUTO FAIL: ARM FIRST" and leaves
\* flightMode, isReturningHome and deliveryWaitTime (the whole physics record)
\* as they were.
C20_AutoRefused ==
    [][\A d \in Drones :
         (/\ lastEvent'.op = "setMode"
          /\ selectedDroneId = d
          /\ \/ ~drones[d].hasRoute
             \/ Len(drones[d].assignedRoute) = 0
             \/ ~physics[d].armed)
         => /\ lastEvent' # Event("setMode", d, "AUTO")
            /\ (physics'[d].flightMode = "AUTO" => physics[d].flightMode = "AUTO")
            /\ (lastEvent' \in {Event("setMode", d, "AUTO FAIL: NO MISSION"),
                                Event("setMode", d, "AUTO FAIL: ARM FIRST")}
                  => /\ physics'[d].flightMode = physics[d].flightMode
                     /\ physics'[d].isReturningHome = physics[d].isReturningHome
                     /\ physics'[d].deliveryWaitTime = physics[d].deliveryWaitTime
                     /\ physics' = physics
                     /\ drones' = drones)]_vars

\* C20: AUTO has just been refused to an armed vehicle whose route has been
\* replaced by an empty one
C20_RefusedEmptyRoute ==
    \E d \in Drones : /\ lastEvent = Event("setMode", d, "AUTO FAIL: NO MISSION")
                      /\ selectedDroneId = d
                      /\ drones[d].hasRoute
                      /\ Len(drones[d].assignedRoute) = 0
                      /\ physics[d].armed

\* C21: every vehicle's battery level lies between empty and full
\* (0 <= battery_rem <= 100 %).
C21_BatteryInRange ==
    \A d \in Drones : /\ physics[d].battery_rem >= 0
                      /\ physics[d].battery_rem <= FULL_BATTERY

\* C21: an armed vehicle has been ticked past an empty battery
C21_Overdrawn ==
    \E d \in Drones : /\ physics[d].battery_rem < 0
                      /\ physics[d].armed
                      /\ physics[d].drainRate > 0
                      /\ lastEvent.op = "tick"

\* C22: a tick that finds a vehicle disarmed leaves its lat, lng and altitude
\* as they were (and leaves it disarmed), whether or not it is selected and
\* whatever axes are held.
C22_DisarmedStaysPut ==
    [][\A d \in Drones :
         (TickStep /\ ~physics[d].armed)
         => /\ physics'[d].lat = physics[d].lat
            /\ physics'[d].lng = physics[d].lng
            /\ physics'[d].alt = physics[d].alt
            /\ ~physics'[d].armed]_vars

\* C22: the loop has ticked over a disarmed, selected vehicle with a route
\* while an axis was held
C22_DisarmedUnderInput ==
    \E d \in Drones : /\ lastEvent.op = "tick"
                      /\ selectedDroneId = d
                      /\ drones[d].hasRoute
                      /\ ~physics[d].armed
                      /\ physics[d].sinceTick = 0
                      /\ activeControls # {}

\* C23: pressing or releasing an axis (joystick or keyboard) changes the
\* physics of no vehicle but the selected one, and a tick gives every vehicle
\* that is not selected exactly what the autonomous stages give it with no
\* axis held; with no vehicle selected this covers every vehicle.
C23_ManualOnlySelected ==
    [][/\ lastEvent'.op \in {"handleManualControl", "key"}
            => \A d \in Drones : d # selectedDroneId => physics'[d] = physics[d]
       /\ TickStep
            => \E step \in Steps : \A d \in Drones :
                   d # selectedDroneId
                   => physics'[d] = TickOne(physics[d], drones[d], step, FALSE, {}).p]_vars

\* C23: the joystick has just overridden the selected vehicle's mission while
\* another vehicle is flying its own in AUTO
C23_OverrideBesideAuto ==
    \E d, e \in Drones :
        /\ d # e
        /\ selectedDroneId = d
        /\ lastEvent = Event("handleManualControl", d, "MANUAL OVERRIDE: SWITCHING TO GUIDED")
        /\ physics[d].flightMode = "GUIDED"
        /\ physics[e].armed
        /\ physics[e].flightMode = "AUTO"
        /\ physics[e].alt > 0

\* C24: an arm, disarm or setMode command changes no physics record but that
\* of the vehicle selected when it is issued (none when no vehicle is
\* selected), changes no fleet record and schedules arming for that vehicle
\* only; the delayed arming arms the vehicle the request was made for and no
\* other; and a change of selection changes no vehicle's physics, status,
\* route or task.
C24_ScopedCommands ==
    [][/\ lastEvent'.op \in {"armSystem", "disarmSystem", "setMode"}
            => /\ \A d \in Drones : d # selectedDroneId => physics'[d] = physics[d]
               /\ drones' = drones
               /\ selectedDroneId' = selectedDroneId
               /\ (timers' \ timers) \subseteq (CheckTimers \cup {<<"arm", selectedDroneId>>})
       /\ \A d \in Drones :
             lastEvent' = Event("timer", d, "MOTORS ARMED")
             => /\ ghost[d].armReq
                /\ drones' = drones
                /\ \A e \in Drones : e # d => physics'[e] = physics[e]
       /\ lastEvent'.op = "select"
            => /\ physics' = physics
               /\ drones' = drones]_vars

\* C24: a mode command has just been given to the selected vehicle while
\* another vehicle flies its mission
C24_CommandBesideFlight ==
    \E d, e \in Drones :
        /\ d # e
        /\ selectedDroneId = d
        /\ lastEvent = Event("setMode", d, "LOITER")
        /\ physics[d].flightMode = "LOITER"
        /\ physics[e].armed
        /\ physics[e].flightMode = "AUTO"
        /\ physics[e].alt > 0

\* C25: a vehicle's status moves only along idle -> dispatched -> running ->
\* completed -> idle; the tick of the delivery landing leaves it completed,
\* and it returns to idle only in the tick of the home landing that ends the
\* return.
C25_StatusOrder ==
    [][\A d \in Drones :
         /\ drones'[d].status # drones[d].status
               => <<drones[d].status, drones'[d].status>> \in
                      {<<"idle", "dispatched">>, <<"dispatched", "running">>,
                       <<"running", "completed">>, <<"completed", "idle">>}
         /\ (TickStep /\ <<d, "DELIVERED">> \in lastEvent'.events)
               => drones'[d].status = "completed"
         /\ (drones'[d].status = "idle" /\ drones[d].status # "idle")
               => /\ TickStep
                  /\ <<d, "RELEASED">> \in lastEvent'.events
                  /\ ghost[d].wasReturning]_vars

\* C25: the delivery landing has just happened, the request is marked
\* completed and the vehicle's status is still running
C25_DeliveredStillRunning ==
    \E d \in Drones : /\ <<d, "DELIVERED">> \in lastEvent.events
                      /\ drones[d].status = "running"
                      /\ drones[d].assignedTaskId # None
                      /\ requests[drones[d].assignedTaskId] = "completed"
                      /\ physics[d].deliveryWaitTime > 0

\* C26 (as stated): the tick that finds an armed vehicle in AUTO with a
\* non-empty route and activeWpIndex = -1 reports the mission start and leaves
\* the index at 0 and the status at running; the start is reported in no
\* other tick, and never for a vehicle that is already running.
C26_StartOnce ==
    [][\A d \in Drones :
         /\ (/\ TickStep
             /\ physics[d].armed
             /\ physics[d].flightMode = "AUTO"
             /\ drones[d].hasRoute
             /\ Len(drones[d].assignedRoute) > 0
             /\ physics[d].activeWpIndex = -1)
            => /\ <<d, "MISSION STARTED">> \in lastEvent'.events
               /\ physics'[d].activeWpIndex = 0
               /\ drones'[d].status = "running"
         /\ <<d, "MISSION STARTED">> \in lastEvent'.events
            => /\ TickStep
               /\ physics[d].armed
               /\ physics[d].flightMode = "AUTO"
               /\ physics[d].activeWpIndex = -1
               /\ drones[d].status # "running"]_vars

\* C26 (amended): as above, except that the starting tick leaves the index at
\* 1 when it finds the vehicle already within the radius and the altitude
\* tolerance of the first waypoint, which is not the last one.
C26_StartOnceFromHover ==
    [][\A d \in Drones :
         /\ (/\ TickStep
             /\ physics[d].armed
             /\ physics[d].flightMode = "AUTO"
             /\ drones[d].hasRoute
             /\ Len(drones[d].assignedRoute) > 0
             /\ physics[d].activeWpIndex = -1)
            => /\ <<d, "MISSION STARTED">> \in lastEvent'.events
               /\ drones'[d].status = "running"
               /\ LET wp == drones[d].assignedRoute[1]
                      atFirst == /\ DistLess(physics[d].lat, physics[d].lng,
                                             wp.lat, wp.lng, WP_RADIUS)
                                 /\ Abs(physics[d].alt - wp.alt) < 2
                                 /\ wp.command # "NAV_LAND"
                                 /\ Len(drones[d].assignedRoute) > 1
                  IN  physics'[d].activeWpIndex = IF atFirst THEN 1 ELSE 0
         /\ <<d, "MISSION STARTED">> \in lastEvent'.events
            => /\ TickStep
               /\ physics[d].armed
               /\ physics[d].flightMode = "AUTO"
               /\ physics[d].activeWpIndex = -1
               /\ drones[d].status # "running"]_vars

\* C26: a mission that was started and then put in LOITER in flight has just
\* been given AUTO again, beyond its first waypoint
C26_Resumed ==
    \E d \in Drones : /\ lastEvent = Event("setMode", d, "AUTO")
                      /\ physics[d].flightMode = "AUTO"
                      /\ physics[d].armed
                      /\ physics[d].activeWpIndex >= 1
                      /\ physics[d].alt > 0
                      /\ drones[d].status = "running"
                      /\ opsLeft < MaxOps

\* C27: isReturningHome becomes true, and the return is announced, only in a
\* tick that finds the vehicle in AUTO with deliveryWaitTime >= 3.0 s; the
\* wait grows only in ticks, by the tick's clamped dt (at most 0.1 s).
C27_ReturnAfterWait ==
    [][\A d \in Drones :
         /\ (physics'[d].isReturningHome /\ ~physics[d].isReturningHome)
               => /\ TickStep
                  /\ physics[d].flightMode = "AUTO"
                  /\ physics[d].deliveryWaitTime >= DELIVERY_WAIT
                  /\ physics'[d].flightMode = "RTL"
         /\ <<d, "INITIATING RTL">> \in lastEvent'.events
               => /\ TickStep
                  /\ physics[d].deliveryWaitTime >= DELIVERY_WAIT
         /\ physics'[d].deliveryWaitTime > physics[d].deliveryWaitTime
               => /\ TickStep
                  /\ \E step \in Steps :
                        physics'[d].deliveryWaitTime
                          = physics[d].deliveryWaitTime + ClampDt(Elapsed(physics[d], step))
                  /\ physics'[d].deliveryWaitTime - physics[d].deliveryWaitTime <= DT_CLAMP]_vars

\* C27: the wait has run its 3 s and the tick has just turned the vehicle for home
C27_TurnedForHome ==
    \E d \in Drones : /\ <<d, "INITIATING RTL">> \in lastEvent.events
                      /\ physics[d].isReturningHome
                      /\ physics[d].flightMode = "RTL"
                      /\ physics[d].deliveryWaitTime >= DELIVERY_WAIT
                      /\ physics[d].armed

\* C28: a tick that finds a vehicle waiting after its delivery landing (armed,
\* in AUTO, 0 < deliveryWaitTime < 3.0 s, not returning), with no operator
\* input, leaves it armed, leaves its lat and lng as they were and leaves its
\* altitude below 0.5 m.
C28_WaitsOnGround ==
    [][\A d \in Drones :
         (/\ TickStep
          /\ physics[d].armed
          /\ physics[d].flightMode = "AUTO"
          /\ ~physics[d].isReturningHome
          /\ physics[d].deliveryWaitTime > 0
          /\ physics[d].deliveryWaitTime < DELIVERY_WAIT)
         => /\ physics'[d].armed
            /\ physics'[d].lat = physics[d].lat
            /\ physics'[d].lng = physics[d].lng
            /\ 2 * physics'[d].alt < 1]_vars

\* C28: ticks have carried a vehicle in its delivery wait off the line of its
\* approach, east or west of the waypoint it landed at
C28_AdriftDuringWait ==
    \E d \in Drones :
        /\ lastEvent.op = "tick"
        /\ physics[d].armed
        /\ physics[d].flightMode = "AUTO"
        /\ ~physics[d].isReturningHome
        /\ physics[d].deliveryWaitTime > DT_CLAMP
        /\ physics[d].deliveryWaitTime < DELIVERY_WAIT
        /\ drones[d].hasRoute
        /\ physics[d].activeWpIndex + 1 = Len(drones[d].assignedRoute)
        /\ LET wp == drones[d].assignedRoute[Len(drones[d].assignedRoute)]
           IN  physics[d].lng # wp.lng

\* C29: a tick that finds a vehicle armed in LAND, with no axis held, leaves
\* its lat and lng as they were.
C29_LandsInPlace ==
    [][\A d \in Drones :
         (/\ TickStep
          /\ physics[d].armed
          /\ physics[d].flightMode = "LAND"
          /\ activeControls = {})
         => /\ physics'[d].lat = physics[d].lat
            /\ physics'[d].lng = physics[d].lng]_vars

\* C29: a vehicle that entered LAND inside the home radius, at the end of its
\* return, is still descending outside that radius
C29_DriftedWhileLanding ==
    \E d \in Drones :
        /\ lastEvent.op = "tick"
        /\ physics[d].armed
        /\ physics[d].flightMode = "LAND"
        /\ physics[d].isReturningHome
        /\ physics[d].alt > 0
        /\ activeControls = {}
        /\ ~DistLess(physics[d].lat, physics[d].lng,
                     physics[d].homeLocation.lat, physics[d].homeLocation.lng, HOME_RADIUS)

\* C30: a tick that finds a vehicle armed in LOITER, with no axis held, leaves
\* its lat, lng and activeWpIndex as they were, and leaves it in LOITER.
C30_LoiterHolds ==
    [][\A d \in Drones :
         (/\ TickStep
          /\ physics[d].armed
          /\ physics[d].flightMode = "LOITER"
          /\ activeControls = {})
         => /\ physics'[d].lat = physics[d].lat
            /\ physics'[d].lng = physics[d].lng
            /\ physics'[d].activeWpIndex = physics[d].activeWpIndex
            /\ physics'[d].flightMode = "LOITER"]_vars

\* C30: a vehicle taken out of its mission in flight has been ticked in
\* LOITER, away from the hub, with waypoints still ahead
C30_LoiteringEnRoute ==
    \E d \in Drones :
        /\ lastEvent.op = "tick"
        /\ physics[d].armed
        /\ physics[d].flightMode = "LOITER"
        /\ physics[d].sinceTick = 0
        /\ physics[d].alt > 0
        /\ physics[d].lat > 0
        /\ physics[d].activeWpIndex >= 1
        /\ physics[d].activeWpIndex + 1 < Len(drones[d].assignedRoute)
        /\ activeControls = {}

\* C31: a tick that finds a vehicle armed in GUIDED, with no axis held, leaves
\* its lat and lng as they were: GUIDED holds the position.
C31_GuidedHolds ==
    [][\A d \in Drones :
         (/\ TickStep
          /\ physics[d].armed
          /\ physics[d].flightMode = "GUIDED"
          /\ activeControls = {})
         => /\ physics'[d].lat = physics[d].lat
            /\ physics'[d].lng = physics[d].lng]_vars

\* C31: a vehicle put in GUIDED on its pad, with no axis ever held, has been
\* ticked away from the pad
C31_GuidedAdrift ==
    \E d \in Drones :
        /\ lastEvent.op = "tick"
        /\ physics[d].armed
        /\ physics[d].flightMode = "GUIDED"
        /\ activeControls = {}
        /\ physics[d].activeWpIndex = -1
        /\ physics[d].alt = 0
        /\ physics[d].lat # physics[d].homeLocation.lat

\* C32: a tick updates every vehicle that has a route with an elapsed time dt
\* of at most 0.1 s, whatever the gap since the vehicle's own lastTick (its
\* new record is the loop body's outcome for some dt <= DT_CLAMP on a record
\* ticked just before), and leaves the vehicle's lastTick at the tick's
\* timestamp; the delivery wait grows by no more than 0.1 s in one tick.
C32_DtClamped ==
    [][TickStep =>
         \A d \in Drones :
             drones[d].hasRoute
             => /\ physics'[d].sinceTick = 0
                /\ \E dt \in 0..DT_CLAMP :
                      physics'[d] = TickOne([physics[d] EXCEPT !.sinceTick = 0], drones[d], dt,
                                            d = selectedDroneId, activeControls).p
                /\ physics'[d].deliveryWaitTime - physics[d].deliveryWaitTime <= DT_CLAMP]_vars

\* C32: the tick that started the mission came after a stall of more than
\* 0.1 s since the vehicle's lastTick (its lastTick grew old while it waited
\* without a route), and has moved it by one 0.1 s step of cruise flight
C32_OneStepAfterStall ==
    \E d \in Drones :
        /\ <<d, "MISSION STARTED">> \in lastEvent.events
        /\ physics[d].armed
        /\ physics[d].flightMode = "AUTO"
        /\ physics[d].sinceTick = 0
        /\ physics[d].alt > 0
        /\ physics[d].lat = physics[d].homeLocation.lat + Scaled(CRUISE_SPEED, DT_CLAMP)
        /\ \E e \in Drones : ~drones[e].hasRoute /\ physics[e].sinceTick > DT_CLAMP

\* C33: after a tick, the telemetry the coordinator holds for every vehicle
\* the tick updated equals the vehicle's physics record at the end of the tick
\* (lat, lng, altitude, speed, verticalSpeed, battery, heading), also when the
\* manual control stage has changed the record after the autonomous stages.
C33_TelemetryCurrent ==
    [][TickStep =>
         \A d \in Drones :
             drones[d].hasRoute
             => /\ drones'[d].telemetry.latitude = physics'[d].lat
                /\ drones'[d].telemetry.longitude = physics'[d].lng
                /\ drones'[d].telemetry.altitude = physics'[d].alt
                /\ drones'[d].telemetry.speed = physics'[d].speed
                /\ drones'[d].telemetry.verticalSpeed = physics'[d].vSpeed
                /\ drones'[d].telemetry.battery = physics'[d].battery_rem
                /\ drones'[d].telemetry.bearing = physics'[d].heading]_vars

\* C33: a tick in which the manual control stage moved the selected vehicle
\* has left a speed in its telemetry that is not the speed of its record,
\* while the position and the altitude published are those of the record
C33_StaleSpeed ==
    \E d \in Drones :
        /\ lastEvent.op = "tick"
        /\ d = selectedDroneId
        /\ physics[d].armed
        /\ activeControls # {}
        /\ physics[d].speed = MANUAL_SPEED_KPH
        /\ drones[d].telemetry.speed # physics[d].speed
        /\ drones[d].telemetry.latitude = physics[d].lat
        /\ drones[d].telemetry.altitude = physics[d].alt
        /\ drones[d].telemetry.battery = physics[d].battery_rem

\* C34: the tick of a LAND touchdown (altitude below 0.5 m) that ends a flight
\* home in RTL, begun automatically after the delivery or by the operator's
\* RTL request, leaves the vehicle disarmed and released: status idle, no
\* route, no task.
C34_EveryReturnReleases ==
    [][\A d \in Drones :
         (/\ TickStep
          /\ drones[d].hasRoute
          /\ physics[d].armed
          /\ physics[d].flightMode = "LAND"
          /\ 2 * physics[d].alt < 1)
         => /\ ~physics'[d].armed
            /\ drones'[d].status = "idle"
            /\ ~drones'[d].hasRoute
            /\ drones'[d].assignedTaskId = None]_vars

\* C34: a vehicle recalled by the operator in the middle of its mission has
\* touched down at the end of its RTL and is disarmed, still running, with its
\* route and its task assigned
C34_LandedNotReleased ==
    \E d \in Drones :
        /\ lastEvent.op = "tick"
        /\ opsLeft < MaxOps
        /\ ~physics[d].armed
        /\ physics[d].flightMode = "STABILIZE"
        /\ physics[d].sinceTick = 0
        /\ ghost[d].armReq
        /\ ~ghost[d].wasReturning
        /\ drones[d].status = "running"
        /\ physics[d].activeWpIndex >= 1
        /\ drones[d].hasRoute
        /\ drones[d].assignedTaskId # None

\* C35: an accepted disarm leaves the vehicle disarmed with no arming pending
\* for it from an earlier arm request, and a disarmed vehicle becomes armed
\* only by an arm request or by the timer such a request has started; so after
\* a disarm the vehicle stays disarmed until an arm request made after it.
C35_DisarmDurable ==
    [][\A d \in Drones :
         /\ lastEvent' = Event("disarmSystem", d, "MOTORS DISARMED")
               => /\ ~physics'[d].armed
                  /\ <<"arm", d>> \notin timers'
         /\ (~physics[d].armed /\ physics'[d].armed)
               => lastEvent'.op \in {"armSystem", "timer"}]_vars

\* C35: a disarm has just been accepted for a vehicle while the arming timer
\* of an earlier arm request is still pending for it
C35_ArmingOutlivesDisarm ==
    \E d \in Drones :
        /\ lastEvent = Event("disarmSystem", d, "MOTORS DISARMED")
        /\ selectedDroneId = d
        /\ ~physics[d].armed
        /\ physics[d].flightMode = "STABILIZE"
        /\ ghost[d].armReq
        /\ <<"arm", d>> \in timers
        /\ timers \cap CheckTimers = {}

\* C36: no two vehicles hold the same task at the same time, whatever
\* dispatch requests are made, a repeated dispatch of one request included.
C36_TaskHeldOnce ==
    \A d, e \in Drones :
        (d # e /\ drones[d].assignedTaskId # None)
        => drones[d].assignedTaskId # drones[e].assignedTaskId

\* C36: the request dispatched to the first vehicle has just been dispatched
\* again, to the second one
C36_DispatchedTwice ==
    \E d, e \in Drones :
        /\ d # e
        /\ lastEvent = Event("handleDispatch", e, "dispatched")
        /\ opsLeft < MaxOps
        /\ drones[d].status = "dispatched"
        /\ drones[e].status = "dispatched"
        /\ drones[d].assignedTaskId # None
        /\ drones[e].assignedTaskId = drones[d].assignedTaskId
        /\ requests[drones[d].assignedTaskId] = "dispatched"

\* C37: unmounting and remounting MissionControl leaves every vehicle's
\* position, altitude, armed flag, flight mode, activeWpIndex, deliveryWaitTime
\* and isReturningHome as they were, and leaves the fleet table as it was, so
\* that the physics records still agree with the statuses, routes and tasks.
C37_RemountPreserves ==
    [][lastEvent'.op = "remount" =>
         /\ drones' = drones
         /\ \A d \in Drones :
               /\ physics'[d].lat = physics[d].lat
               /\ physics'[d].lng = physics[d].lng
               /\ physics'[d].alt = physics[d].alt
               /\ physics'[d].armed = physics[d].armed
               /\ physics'[d].flightMode = physics[d].flightMode
               /\ physics'[d].activeWpIndex = physics[d].activeWpIndex
               /\ physics'[d].deliveryWaitTime = physics[d].deliveryWaitTime
               /\ physics'[d].isReturningHome = physics[d].isReturningHome]_vars

\* C37: after a change of view a vehicle whose mission is running, with its
\* delivery made, stands disarmed on its pad in STABILIZE with no waypoint index
C37_MissionForgotten ==
    \E d \in Drones :
        /\ lastEvent.op = "remount"
        /\ drones[d].status = "running"
        /\ drones[d].hasRoute
        /\ drones[d].assignedTaskId # None
        /\ ghost[d].calls >= 1
        /\ physics[d] = InitialPhysics

\* C38: in every reachable state a vehicle whose flight mode is AUTO is armed.
C38_AutoIsArmed ==
    \A d \in Drones : physics[d].flightMode = "AUTO" => physics[d].armed

\* C38: a vehicle has just been disarmed by the operator out of a mission it
\* was flying in AUTO, close to the ground and before its delivery, and has
\* left AUTO with it
C38_DisarmedOutOfAuto ==
    \E d \in Drones :
        /\ lastEvent = Event("disarmSystem", d, "MOTORS DISARMED")
        /\ ~physics[d].armed
        /\ physics[d].flightMode = "STABILIZE"
        /\ drones[d].status = "running"
        /\ physics[d].activeWpIndex >= 0
        /\ ghost[d].calls = 0
        /\ ~ghost[d].wasReturning

\* C39: in every reachable state a disarmed vehicle is in STABILIZE mode.
C39_DisarmedIsStabilize ==
    \A d \in Drones : ~physics[d].armed => physics[d].flightMode = "STABILIZE"

\* C39: the operator's mode request has just moved a disarmed vehicle out of
\* STABILIZE
C39_DisarmedLeftStabilize ==
    \E d \in Drones, mode \in UiModes \ {"AUTO", "STABILIZE"} :
        /\ lastEvent = Event("setMode", d, mode)
        /\ ~physics[d].armed
        /\ physics[d].flightMode = mode

====
